---- MODULE Spec2Model ----
(***************************************************************************)
(* Model of the moldova template interpreter (package moldova):            *)
(* BuildCallstack compiles a template into a list of closures, and         *)
(* Callstack.Write runs them against an object cache that resolves the     *)
(* ordinal back-references.                                                *)
(*                                                                         *)
(* Text is modelled as a sequence of runes, each rune a one-element        *)
(* string (an ASCII rune is its character, any other rune is named by its  *)
(* code point).  Random sources are modelled as the set of values they may *)
(* return, so each generator is the set of its possible outcomes.          *)
(***************************************************************************)
EXTENDS Integers, Sequences, FiniteSets, TLC

VARIABLES template, built, stack, cache, pc, idx, result, err, emits, gen, calls, cli, heap

vars == <<template, built, stack, cache, pc, idx, result, err, emits, gen, calls, cli, heap>>

(***************************************************************************)
(* Bounds of the model.                                                    *)
(***************************************************************************)
\* Write calls made on one Callstack by one caller
MaxWrites == 2
\* rand.Intn(n) / rand.Int63n(n) is sampled as 0..MaxDraw-1 together with n-1
MaxDraw == 3
\* integer option values of the generated templates range over -MaxAbs..MaxAbs
MaxAbs == 2
\* decimals kept by the fixed-point model of float64
FloatDigits == 3
\* largest value of the command's -n flag
MaxIter == 2
\* number of templates compiled one after the other
MaxCompiles == 3

(***************************************************************************)
(* Text helpers.                                                           *)
(***************************************************************************)
Runes(s) == [i \in 1..Len(s) |-> SubSeq(s, i, i)]

Digits == Runes("0123456789")

IsDigit(c) == \E d \in 1..10 : Digits[d] = c

DigitVal(c) == (CHOOSE d \in 1..10 : Digits[d] = c) - 1

RECURSIVE NatText(_)
NatText(n) ==
    IF n < 10 THEN <<Digits[n + 1]>>
    ELSE NatText(n \div 10) \o <<Digits[(n % 10) + 1]>>

\* strconv.Itoa
Itoa(n) == IF n < 0 THEN <<"-">> \o NatText(-n) ELSE NatText(n)

RECURSIVE DigitsVal(_)
DigitsVal(t) ==
    IF t = <<>> THEN 0
    ELSE 10 * DigitsVal(SubSeq(t, 1, Len(t) - 1)) + DigitVal(t[Len(t)])

AllDigits(t) == Len(t) > 0 /\ \A i \in 1..Len(t) : IsDigit(t[i])

\* strconv.Atoi: an optional sign followed by at least one decimal digit
Atoi(t) ==
    LET signed == Len(t) > 0 /\ t[1] \in {"-", "+"}
        body   == IF signed THEN Tail(t) ELSE t
        neg    == signed /\ t[1] = "-"
    IN  IF AllDigits(body)
        THEN [err |-> "", v |-> IF neg THEN -DigitsVal(body) ELSE DigitsVal(body)]
        ELSE [err |-> "strconv: invalid syntax", v |-> 0]

\* position of the first c in t, 0 when there is none
IndexOf(t, c) ==
    IF \E i \in 1..Len(t) : t[i] = c
    THEN CHOOSE i \in 1..Len(t) : t[i] = c /\ \A j \in 1..(i - 1) : t[j] # c
    ELSE 0

\* faulty variant: the text is split at its last c
SplitAtLast(t, c) ==
    IF \A i \in 1..Len(t) : t[i] # c THEN <<t>>
    ELSE LET i == CHOOSE k \in 1..Len(t) : t[k] = c /\ \A j \in (k + 1)..Len(t) : t[j] # c
         IN  <<SubSeq(t, 1, i - 1), SubSeq(t, i + 1, Len(t))>>

\* strings.SplitN(t, c, 2)
SplitN2(t, c) ==
    LET i == IndexOf(t, c)
    IN  IF i = 0 THEN <<t>>
        ELSE <<SubSeq(t, 1, i - 1), SubSeq(t, i + 1, Len(t))>>

\* strings.Split(t, c)
RECURSIVE Split(_, _)
Split(t, c) ==
    LET i == IndexOf(t, c)
    IN  IF i = 0 THEN <<t>>
        ELSE <<SubSeq(t, 1, i - 1)>> \o Split(SubSeq(t, i + 1, Len(t)), c)

LowerLetters == Runes("abcdefghijklmnopqrstuvwxyz")
UpperLetters == Runes("ABCDEFGHIJKLMNOPQRSTUVWXYZ")

\* the non-ASCII rune with code point cp
Rune(cp) == "U+" \o ToString(cp)

\* unicode.ToUpper on the runes the model handles: the ASCII letters and the cased
\* code points at the low end of the Greek range of PrintableRanges (U+0377 and
\* U+037B..U+037D are lower case; the other sampled code points have no upper case)
ToUpperRune(c) ==
    IF \E i \in 1..26 : LowerLetters[i] = c
    THEN UpperLetters[CHOOSE i \in 1..26 : LowerLetters[i] = c]
    ELSE IF c = Rune(887) THEN Rune(886)
    ELSE IF c = Rune(891) THEN Rune(1021)
    ELSE IF c = Rune(892) THEN Rune(1022)
    ELSE IF c = Rune(893) THEN Rune(1023)
    ELSE c

\* unicode.ToLower on the runes it is applied to (country codes and names: ASCII)
ToLowerRune(c) ==
    IF \E i \in 1..26 : UpperLetters[i] = c
    THEN LowerLetters[CHOOSE i \in 1..26 : UpperLetters[i] = c]
    ELSE c

\* strings.ToUpper
ToUpper(t) == [i \in 1..Len(t) |-> ToUpperRune(t[i])]

\* strings.ToLower
ToLower(t) == [i \in 1..Len(t) |-> ToLowerRune(t[i])]

(***************************************************************************)
(* Option maps (cmdOptions): functions from key text to value text.        *)
(***************************************************************************)
EmptyMap == [k \in {} |-> <<>>]

MapSet(m, k, v) == [x \in (DOMAIN m) \cup {k} |-> IF x = k THEN v ELSE m[x]]

\* the map holding the <<key, value>> pairs of a set, given as strings
MapOf(pairs) ==
    [k \in {Runes(p[1]) : p \in pairs} |->
        Runes((CHOOSE p \in pairs : Runes(p[1]) = k)[2])]

\* data.English, the default language of the name tables
English == Runes("english")

defaultOptions(name) ==
    IF name = Runes("guid") THEN MapOf({<<"ordinal", "-1">>})
    ELSE IF name = Runes("now")
    THEN MapOf({<<"ordinal", "-1">>, <<"format", "simple">>, <<"zone", "UTC">>})
    ELSE IF name = Runes("time")
    THEN MapOf({<<"ordinal", "-1">>, <<"format", "simple">>, <<"min", "0">>,
                <<"max", "1455512165">>, <<"zone", "UTC">>})
    ELSE IF name = Runes("int")
    THEN MapOf({<<"min", "0">>, <<"max", "100">>, <<"ordinal", "-1">>})
    ELSE IF name = Runes("float")
    THEN MapOf({<<"min", "0.0">>, <<"max", "100.0">>, <<"ordinal", "-1">>})
    ELSE IF name \in {Runes("ascii"), Runes("unicode")}
    THEN MapOf({<<"length", "2">>, <<"case", "down">>, <<"ordinal", "-1">>})
    ELSE IF name = Runes("country")
    THEN MapOf({<<"ordinal", "-1">>, <<"case", "up">>})
    ELSE IF name \in {Runes("firstname"), Runes("lastname")}
    THEN MapSet(MapOf({<<"ordinal", "-1">>}), Runes("language"), English)
    ELSE EmptyMap

\* faulty variant: a pair does not replace a default
RECURSIVE ApplyPartsKeep(_, _)
ApplyPartsKeep(m, parts) ==
    IF parts = <<>> THEN [panic |-> "", m |-> m]
    ELSE LET opt == SplitN2(Head(parts), ":")
         IN  IF Len(opt) < 2
             THEN [panic |-> "index out of range", m |-> m]
             ELSE ApplyPartsKeep(IF opt[1] \in DOMAIN m THEN m ELSE MapSet(m, opt[1], opt[2]),
                                 Tail(parts))

\* faulty variant: only the first pair is applied
ApplyPartsFirst(m, parts) ==
    IF parts = <<>> THEN [panic |-> "", m |-> m]
    ELSE LET opt == SplitN2(Head(parts), ":")
         IN  IF Len(opt) < 2
             THEN [panic |-> "index out of range", m |-> m]
             ELSE [panic |-> "", m |-> MapSet(m, opt[1], opt[2])]

\* the loop of optionsToMap over the "|"-separated parts: m[opt[0]] = opt[1],
\* which panics (index out of range) on a part without ":"
RECURSIVE ApplyParts(_, _)
ApplyParts(m, parts) ==
    IF parts = <<>> THEN [panic |-> "", m |-> m]
    ELSE LET opt == SplitN2(Head(parts), ":")
         IN  IF Len(opt) < 2
             THEN [panic |-> "index out of range", m |-> m]
             ELSE ApplyParts(MapSet(m, opt[1], opt[2]), Tail(parts))

\* faulty variant: a name without default options is refused
optionsToMapKnown(name, options) ==
    IF defaultOptions(name) = EmptyMap THEN [panic |-> "unsupported", m |-> EmptyMap]
    ELSE IF Len(options) = 0
    THEN [panic |-> "", m |-> defaultOptions(name)]
    ELSE ApplyParts(defaultOptions(name), Split(options, "|"))

optionsToMap(name, options) ==
    IF Len(options) = 0
    THEN [panic |-> "", m |-> defaultOptions(name)]
    ELSE ApplyParts(defaultOptions(name), Split(options, "|"))

(***************************************************************************)
(* BuildCallstack: one pass over the runes of the template.                *)
(***************************************************************************)
\* the closure that writes the literal text cb
LiteralStep(cb) == [lit |-> TRUE, text |-> cb, opts |-> EmptyMap]

\* the closure that invokes resolveWord(cache, word, opts)
WordStep(word, opts) == [lit |-> FALSE, text |-> word, opts |-> opts]

\* faulty variant: the final push is skipped
FinalPushSkipped(st, s) == st

\* the final push of BuildCallstack: whatever remains in the word buffer
FinalPush(st, s) == Append(st, LiteralStep(s))

\* faulty variant: "}" closes a word whether or not a "{" opened one
ScanRuneUnguarded(sc, c) ==
    IF sc.panic # "" THEN sc
    ELSE IF ~sc.foundWord /\ c = "{"
    THEN [sc EXCEPT !.foundWord = TRUE, !.wordBuffer = <<>>,
                    !.stack = Append(@, LiteralStep(sc.wordBuffer))]
    ELSE IF c = "}"
    THEN LET parts   == SplitN2(sc.wordBuffer, ":")
             rawOpts == IF Len(parts) > 1 THEN parts[2] ELSE <<>>
             o       == optionsToMap(parts[1], rawOpts)
         IN  IF o.panic # "" THEN [sc EXCEPT !.panic = o.panic]
             ELSE [sc EXCEPT !.foundWord = FALSE, !.wordBuffer = <<>>,
                             !.stack = Append(@, WordStep(parts[1], o.m))]
    ELSE [sc EXCEPT !.wordBuffer = Append(@, c)]

\* faulty variant: the "{" that opens a token stays in the buffer
ScanRuneKeepsBrace(sc, c) ==
    IF sc.panic # "" THEN sc
    ELSE IF ~sc.foundWord /\ c = "{"
    THEN [sc EXCEPT !.foundWord = TRUE, !.wordBuffer = <<c>>,
                    !.stack = Append(@, LiteralStep(sc.wordBuffer))]
    ELSE IF sc.foundWord /\ c = "}"
    THEN LET parts   == SplitN2(sc.wordBuffer, ":")
             rawOpts == IF Len(parts) > 1 THEN parts[2] ELSE <<>>
             o       == optionsToMap(parts[1], rawOpts)
         IN  IF o.panic # "" THEN [sc EXCEPT !.panic = o.panic]
             ELSE [sc EXCEPT !.foundWord = FALSE, !.wordBuffer = <<>>,
                             !.stack = Append(@, WordStep(parts[1], o.m))]
    ELSE [sc EXCEPT !.wordBuffer = Append(@, c)]

\* faulty variant: a "{" inside a token starts another token
ScanRuneNested(sc, c) ==
    IF sc.panic # "" THEN sc
    ELSE IF c = "{"
    THEN [sc EXCEPT !.foundWord = TRUE, !.wordBuffer = <<>>,
                    !.stack = Append(@, LiteralStep(sc.wordBuffer))]
    ELSE IF sc.foundWord /\ c = "}"
    THEN LET parts   == SplitN2(sc.wordBuffer, ":")
             rawOpts == IF Len(parts) > 1 THEN parts[2] ELSE <<>>
             o       == optionsToMap(parts[1], rawOpts)
         IN  IF o.panic # "" THEN [sc EXCEPT !.panic = o.panic]
             ELSE [sc EXCEPT !.foundWord = FALSE, !.wordBuffer = <<>>,
                             !.stack = Append(@, WordStep(parts[1], o.m))]
    ELSE [sc EXCEPT !.wordBuffer = Append(@, c)]

\* one iteration of the loop over the runes of the template; sc holds the loop's
\* variables, and a panic of optionsToMap ends the function
ScanRune(sc, c) ==
    IF sc.panic # "" THEN sc
    ELSE IF ~sc.foundWord /\ c = "{"
    THEN [sc EXCEPT !.foundWord = TRUE, !.wordBuffer = <<>>,
                    !.stack = Append(@, LiteralStep(sc.wordBuffer))]
    ELSE IF sc.foundWord /\ c = "}"
    THEN LET parts   == SplitN2(sc.wordBuffer, ":")
             rawOpts == IF Len(parts) > 1 THEN parts[2] ELSE <<>>
             o       == optionsToMap(parts[1], rawOpts)
         IN  IF o.panic # "" THEN [sc EXCEPT !.panic = o.panic]
             ELSE [sc EXCEPT !.foundWord = FALSE, !.wordBuffer = <<>>,
                             !.stack = Append(@, WordStep(parts[1], o.m))]
    ELSE [sc EXCEPT !.wordBuffer = Append(@, c)]

\* the loop over the runes lo..hi of t, from the loop state sc (split in halves so
\* that the evaluation depth stays logarithmic in the length of the template)
RECURSIVE Scan(_, _, _, _)
Scan(sc, t, lo, hi) ==
    IF lo > hi THEN sc
    ELSE IF lo = hi THEN ScanRune(sc, t[lo])
    ELSE LET mid  == (lo + hi) \div 2
             left == Scan(sc, t, lo, mid)
         IN  IF left.panic # "" THEN left ELSE Scan(left, t, mid + 1, hi)

\* BuildCallstack as a function of the template: the stack, or the panic raised
BuildCallstackOf(inputTemplate) ==
    LET sc == Scan([panic |-> "", stack |-> <<>>, wordBuffer |-> <<>>, foundWord |-> FALSE],
                   inputTemplate, 1, Len(inputTemplate))
    IN  IF sc.panic # "" THEN [panic |-> sc.panic, stack |-> <<>>]
        ELSE [panic |-> "", stack |-> FinalPush(sc.stack, sc.wordBuffer)]

(***************************************************************************)
(* The object cache and the random sources.                                *)
(***************************************************************************)
Commands == {"guid", "now", "time", "country", "unicode", "ascii", "int", "float",
             "firstname", "lastname"}

newObjectCache == [c \in Commands |-> <<>>]

\* cmdOptions.getInt: a missing key reads as "", which Atoi rejects
\* faulty variant: text that is no number reads as 0
getIntLenient(cmd, n) ==
    LET a == Atoi(IF Runes(n) \in DOMAIN cmd THEN cmd[Runes(n)] ELSE <<>>)
    IN  IF a.err # "" THEN [err |-> "", v |-> 0] ELSE a

getInt(cmd, n) == Atoi(IF Runes(n) \in DOMAIN cmd THEN cmd[Runes(n)] ELSE <<>>)

\* opts[n], "" when the key is missing
Opt(cmd, n) == IF Runes(n) \in DOMAIN cmd THEN cmd[Runes(n)] ELSE <<>>

Min2(a, b) == IF a < b THEN a ELSE b

\* the values rand.Intn(n) and rand.Int63n(n) may return for n > 0 (both panic for
\* n <= 0): all of 0..n-1 when n <= MaxDraw, else the low values and the highest
Intn(n) == (0..(Min2(n, MaxDraw) - 1)) \cup {n - 1}

\* outcomes of a generator: a value and the cache after it, an error, or a panic
Ok(val, oc) == [val |-> val, err |-> "", panic |-> "", oc |-> oc]
Fail(e, oc) == [val |-> <<>>, err |-> e, panic |-> "", oc |-> oc]
Panic(e, oc) == [val |-> <<>>, err |-> "", panic |-> e, oc |-> oc]

ErrOrdinal == "Ordinal has not yet been encountered"
ErrRange == "lower bound is greater than it's upper bound"
ErrLength == "number of characters to generate which is not a number greater than zero"
ErrZone == "unknown time zone"
PanicIntn == "invalid argument to Intn"

\* the test every generator makes before it replays cache[ord]
OrdinalMissing(seq, ord) == Len(seq) - 1 < ord

\* faulty variant: the value is appended twice
CacheAppendTwice(oc, name, v) == [oc EXCEPT ![name] = Append(Append(@, v), v)]

\* faulty variant: the value is put in front of the sequence
CacheAppendFront(oc, name, v) == [oc EXCEPT ![name] = <<v>> \o @]

\* oc[name] = append(cache, v)
CacheAppend(oc, name, v) == [oc EXCEPT ![name] = Append(@, v)]

(***************************************************************************)
(* guid                                                                    *)
(***************************************************************************)
HexDigits == Runes("0123456789abcdef")

\* fmt's %x of one byte
HexByte(b) == <<HexDigits[(b \div 16) + 1], HexDigits[(b % 16) + 1]>>

RECURSIVE HexBytes(_)
HexBytes(bs) == IF bs = <<>> THEN <<>> ELSE HexByte(Head(bs)) \o HexBytes(Tail(bs))

\* faulty variant: the version goes to the low nibble
VersionByteLow(b) == (b \div 16) * 16 + 4

\* b[6] = (b[6] & 0x0F) | 0x40
VersionByte(b) == (b % 16) + 64

\* b[8] = (b[8] &^ 0x40) | 0x80
VariantByte(b) == (b % 64) + 128

uuidv4(b) ==
    LET c == [b EXCEPT ![7] = VersionByte(b[7]), ![9] = VariantByte(b[9])]
    IN  HexBytes(SubSeq(c, 1, 4)) \o <<"-">> \o HexBytes(SubSeq(c, 5, 6)) \o <<"-">>
        \o HexBytes(SubSeq(c, 7, 8)) \o <<"-">> \o HexBytes(SubSeq(c, 9, 10)) \o <<"-">>
        \o HexBytes(SubSeq(c, 11, 16))

\* sample of what crypto/rand may fill the 16 bytes with
ByteSamples == {0, 255}

RandBytes ==
    {[i \in 1..16 |-> IF i = 7 THEN x ELSE IF i = 9 THEN y ELSE z] :
        x \in ByteSamples, y \in ByteSamples, z \in ByteSamples}

\* faulty variant: a replay is cached as a value of its own
guidReplayCached(oc, opts) ==
    LET ord == getInt(opts, "ordinal")
    IN  IF ord.err # "" THEN {Fail(ord.err, oc)}
        ELSE IF ord.v >= 0
        THEN IF OrdinalMissing(oc["guid"], ord.v) THEN {Fail(ErrOrdinal, oc)}
             ELSE {Ok(oc["guid"][ord.v + 1], CacheAppend(oc, "guid", oc["guid"][ord.v + 1]))}
        ELSE {Ok(uuidv4(b), CacheAppend(oc, "guid", uuidv4(b))) : b \in RandBytes}

\* faulty variant: only the ordinal -1 asks for a new value
guidOnlyMinusOne(oc, opts) ==
    LET ord == getInt(opts, "ordinal")
    IN  IF ord.err # "" THEN {Fail(ord.err, oc)}
        ELSE IF ord.v # -1
        THEN IF ord.v < 0 \/ OrdinalMissing(oc["guid"], ord.v) THEN {Fail(ErrOrdinal, oc)}
             ELSE {Ok(oc["guid"][ord.v + 1], oc)}
        ELSE {Ok(uuidv4(b), CacheAppend(oc, "guid", uuidv4(b))) : b \in RandBytes}

guid(oc, opts) ==
    LET ord == getInt(opts, "ordinal")
    IN  IF ord.err # "" THEN {Fail(ord.err, oc)}
        ELSE IF ord.v >= 0
        THEN IF OrdinalMissing(oc["guid"], ord.v) THEN {Fail(ErrOrdinal, oc)}
             ELSE {Ok(oc["guid"][ord.v + 1], oc)}
        ELSE {Ok(uuidv4(b), CacheAppend(oc, "guid", uuidv4(b))) : b \in RandBytes}

(***************************************************************************)
(* int                                                                     *)
(***************************************************************************)
\* faulty variant: the mirrored value is not negated
integerValueMirrored(min, max, r) ==
    LET negateResult == max < 0 /\ min <= 0
        lo == IF negateResult THEN -max ELSE min
    IN  r + lo

\* the value integer() computes from its bounds and the draw r of rand.Intn(diff)
integerValue(min, max, r) ==
    LET negateResult == max < 0 /\ min <= 0
        lo == IF negateResult THEN -max ELSE min
        n  == r + lo
    IN  IF negateResult THEN -n ELSE n

\* faulty variant: the value is cached before it is negated
integerCachedUnsigned(oc, opts) ==
    LET min == getInt(opts, "min")
        max == getInt(opts, "max")
        ord == getInt(opts, "ordinal")
    IN  IF min.err # "" THEN {Fail(min.err, oc)}
        ELSE IF max.err # "" THEN {Fail(max.err, oc)}
        ELSE IF ord.err # "" THEN {Fail(ord.err, oc)}
        ELSE IF ord.v >= 0
        THEN IF OrdinalMissing(oc["int"], ord.v) THEN {Fail(ErrOrdinal, oc)}
             ELSE {Ok(Itoa(oc["int"][ord.v + 1]), oc)}
        ELSE IF min.v > max.v THEN {Fail(ErrRange, oc)}
        ELSE IF max.v - min.v <= 0 THEN {Panic(PanicIntn, oc)}
        ELSE {Ok(Itoa(integerValue(min.v, max.v, r)),
                 CacheAppend(oc, "int",
                     IF integerValue(min.v, max.v, r) < 0
                     THEN -integerValue(min.v, max.v, r)
                     ELSE integerValue(min.v, max.v, r))) :
                r \in Intn(max.v - min.v)}

integer(oc, opts) ==
    LET min == getInt(opts, "min")
        max == getInt(opts, "max")
        ord == getInt(opts, "ordinal")
    IN  IF min.err # "" THEN {Fail(min.err, oc)}
        ELSE IF max.err # "" THEN {Fail(max.err, oc)}
        ELSE IF ord.err # "" THEN {Fail(ord.err, oc)}
        ELSE IF ord.v >= 0
        THEN IF OrdinalMissing(oc["int"], ord.v) THEN {Fail(ErrOrdinal, oc)}
             ELSE {Ok(Itoa(oc["int"][ord.v + 1]), oc)}
        ELSE IF min.v > max.v THEN {Fail(ErrRange, oc)}
        ELSE IF max.v - min.v <= 0 THEN {Panic(PanicIntn, oc)}
        ELSE {Ok(Itoa(integerValue(min.v, max.v, r)),
                 CacheAppend(oc, "int", integerValue(min.v, max.v, r))) :
                r \in Intn(max.v - min.v)}


(***************************************************************************)
(* float: a float64 is modelled in fixed point, in units of 10^-FloatDigits,*)
(* and rand.Float64() by a sample of [0,1).                                *)
(***************************************************************************)
\* decimals "%f" prints
PrintPrecision == 6

RECURSIVE Pow10(_)
Pow10(k) == IF k = 0 THEN 1 ELSE 10 * Pow10(k - 1)

FloatUnit == Pow10(FloatDigits)

\* strconv.ParseFloat on decimal text: [sign] digits [. digits]; digits past the
\* model's precision are dropped
ParseFloat(t) ==
    LET signed == Len(t) > 0 /\ t[1] \in {"-", "+"}
        body   == IF signed THEN Tail(t) ELSE t
        neg    == signed /\ t[1] = "-"
        dot    == IndexOf(body, ".")
        ip     == IF dot = 0 THEN body ELSE SubSeq(body, 1, dot - 1)
        fpall  == IF dot = 0 THEN <<>> ELSE SubSeq(body, dot + 1, Len(body))
        fp     == SubSeq(fpall, 1, Min2(Len(fpall), FloatDigits))
        ok     == /\ ip = <<>> \/ AllDigits(ip)
                  /\ fpall = <<>> \/ AllDigits(fpall)
                  /\ Len(ip) + Len(fpall) > 0
        mag    == DigitsVal(ip) * FloatUnit + DigitsVal(fp) * Pow10(FloatDigits - Len(fp))
    IN  IF ok THEN [err |-> "", v |-> IF neg THEN -mag ELSE mag]
        ELSE [err |-> "strconv: invalid syntax", v |-> 0]

\* cmdOptions.getFloat
getFloat(cmd, n) == ParseFloat(IF Runes(n) \in DOMAIN cmd THEN cmd[Runes(n)] ELSE <<>>)

RECURSIVE PadLeft(_, _)
PadLeft(t, w) == IF Len(t) >= w THEN t ELSE PadLeft(<<"0">> \o t, w)

RECURSIVE PadRight(_, _)
PadRight(t, w) == IF Len(t) >= w THEN t ELSE PadRight(t \o <<"0">>, w)

\* fmt.Sprintf("%f", n)
FormatFloat(n) ==
    LET mag == IF n < 0 THEN -n ELSE n
    IN  (IF n < 0 THEN <<"-">> ELSE <<>>) \o NatText(mag \div FloatUnit) \o <<".">>
        \o PadRight(PadLeft(NatText(mag % FloatUnit), FloatDigits), PrintPrecision)

\* sample of rand.Float64(), each draw u = <<numerator, denominator>> in [0,1)
Float64Draws == {<<0, 1>>, <<1, 2>>, <<15, 16>>}

\* faulty variant: the mirrored value is not negated
floatValueMirrored(min, max, u) ==
    LET diff == max - min
        negateResult == min < 0 /\ max <= 0
        lo == IF negateResult THEN -max ELSE min
    IN  ((u[1] * diff) \div u[2]) + lo

\* the value float() computes from its bounds and the draw u
floatValue(min, max, u) ==
    LET diff == max - min
        negateResult == min < 0 /\ max <= 0
        lo == IF negateResult THEN -max ELSE min
        n  == ((u[1] * diff) \div u[2]) + lo
    IN  IF negateResult THEN -n ELSE n

\* faulty variant: the bounds are not compared
floatUnchecked(oc, opts) ==
    LET min == getFloat(opts, "min")
        max == getFloat(opts, "max")
        ord == getInt(opts, "ordinal")
    IN  IF min.err # "" THEN {Fail(min.err, oc)}
        ELSE IF max.err # "" THEN {Fail(max.err, oc)}
        ELSE IF ord.err # "" THEN {Fail(ord.err, oc)}
        ELSE IF ord.v >= 0
        THEN IF OrdinalMissing(oc["float"], ord.v) THEN {Fail(ErrOrdinal, oc)}
             ELSE {Ok(FormatFloat(oc["float"][ord.v + 1]), oc)}
        ELSE {Ok(FormatFloat(floatValue(min.v, max.v, u)),
                 CacheAppend(oc, "float", floatValue(min.v, max.v, u))) :
                u \in Float64Draws}

float(oc, opts) ==
    LET min == getFloat(opts, "min")
        max == getFloat(opts, "max")
        ord == getInt(opts, "ordinal")
    IN  IF min.err # "" THEN {Fail(min.err, oc)}
        ELSE IF max.err # "" THEN {Fail(max.err, oc)}
        ELSE IF ord.err # "" THEN {Fail(ord.err, oc)}
        ELSE IF ord.v >= 0
        THEN IF OrdinalMissing(oc["float"], ord.v) THEN {Fail(ErrOrdinal, oc)}
             ELSE {Ok(FormatFloat(oc["float"][ord.v + 1]), oc)}
        ELSE IF min.v > max.v THEN {Fail(ErrRange, oc)}
        ELSE {Ok(FormatFloat(floatValue(min.v, max.v, u)),
                 CacheAppend(oc, "float", floatValue(min.v, max.v, u))) :
                u \in Float64Draws}

(***************************************************************************)
(* country                                                                 *)
(***************************************************************************)
\* data.CountryCodes: a sample of the ISO 3166-1 alpha-2 table
CountryCodes == <<Runes("AD"), Runes("US"), Runes("ZW")>>

\* the presentation of a cached or fresh country code
countryCase(cCase, c) == IF cCase = Runes("down") THEN ToLower(c) ELSE c

\* faulty variant: the code is cached as it is shown
countryCachedShown(oc, opts) ==
    LET cCase == Opt(opts, "case")
        ord   == getInt(opts, "ordinal")
    IN  IF ord.err # "" THEN {Fail(ord.err, oc)}
        ELSE IF ord.v >= 0
        THEN IF OrdinalMissing(oc["country"], ord.v) THEN {Fail(ErrOrdinal, oc)}
             ELSE {Ok(countryCase(cCase, oc["country"][ord.v + 1]), oc)}
        ELSE {Ok(countryCase(cCase, CountryCodes[n + 1]),
                 CacheAppend(oc, "country", countryCase(cCase, CountryCodes[n + 1]))) :
                n \in Intn(Len(CountryCodes))}

country(oc, opts) ==
    LET cCase == Opt(opts, "case")
        ord   == getInt(opts, "ordinal")
    IN  IF ord.err # "" THEN {Fail(ord.err, oc)}
        ELSE IF ord.v >= 0
        THEN IF OrdinalMissing(oc["country"], ord.v) THEN {Fail(ErrOrdinal, oc)}
             ELSE {Ok(countryCase(cCase, oc["country"][ord.v + 1]), oc)}
        ELSE {Ok(countryCase(cCase, CountryCodes[n + 1]),
                 CacheAppend(oc, "country", CountryCodes[n + 1])) :
                n \in Intn(Len(CountryCodes))}

(***************************************************************************)
(* unicode                                                                 *)
(***************************************************************************)
PrintableRanges ==
    << <<1024, 1279>>, <<887, 1023>>, <<4352, 4607>>, <<19968, 20352>>,
       <<20480, 40864>>, <<13312, 19888>>, <<1536, 1791>>, <<12448, 12528>>,
       <<64336, 65023>>, <<3584, 3711>>, <<67840, 67871>>  >>

\* faulty variant: the draw inside a range may pass its upper bound
RandomRunesPastEnd ==
    UNION {{Rune(PrintableRanges[o + 1][1] + num) :
                num \in Intn(PrintableRanges[o + 1][2] - PrintableRanges[o + 1][1] + 2)} :
            o \in 0..(Len(PrintableRanges) - 1)}

\* the runes one iteration of generateRandomString may produce
RandomRunes ==
    UNION {{Rune(PrintableRanges[o + 1][1] + num) :
                num \in Intn(PrintableRanges[o + 1][2] - PrintableRanges[o + 1][1])} :
            o \in 0..(Len(PrintableRanges) - 1)}

\* faulty variant: one rune whatever the length
generateRandomStringShort(length) == {<<c>> : c \in RandomRunes}

\* the strings generateRandomString(length) may return
RECURSIVE generateRandomString(_)
generateRandomString(length) ==
    IF length <= 0 THEN {<<>>}
    ELSE {<<c>> \o rest : c \in RandomRunes, rest \in generateRandomString(length - 1)}

\* the presentation of a cached or fresh unicode string
unicodeCase(cCase, str) == IF cCase = Runes("up") THEN ToUpper(str) ELSE str

\* faulty variant: the length is not compared with zero
unicodeUnchecked(oc, opts) ==
    LET cCase == Opt(opts, "case")
        num   == getInt(opts, "length")
        ord   == getInt(opts, "ordinal")
    IN  IF num.err # "" THEN {Fail(num.err, oc)}
        ELSE IF ord.err # "" THEN {Fail(ord.err, oc)}
        ELSE IF ord.v >= 0
        THEN IF OrdinalMissing(oc["unicode"], ord.v) THEN {Fail(ErrOrdinal, oc)}
             ELSE {Ok(unicodeCase(cCase, oc["unicode"][ord.v + 1]), oc)}
        ELSE {Ok(unicodeCase(cCase, str), CacheAppend(oc, "unicode", str)) :
                str \in generateRandomString(num.v)}

unicode(oc, opts) ==
    LET cCase == Opt(opts, "case")
        num   == getInt(opts, "length")
        ord   == getInt(opts, "ordinal")
    IN  IF num.err # "" THEN {Fail(num.err, oc)}
        ELSE IF num.v <= 0 THEN {Fail(ErrLength, oc)}
        ELSE IF ord.err # "" THEN {Fail(ord.err, oc)}
        ELSE IF ord.v >= 0
        THEN IF OrdinalMissing(oc["unicode"], ord.v) THEN {Fail(ErrOrdinal, oc)}
             ELSE {Ok(unicodeCase(cCase, oc["unicode"][ord.v + 1]), oc)}
        ELSE {Ok(unicodeCase(cCase, str), CacheAppend(oc, "unicode", str)) :
                str \in generateRandomString(num.v)}


(***************************************************************************)
(* now and time                                                            *)
(***************************************************************************)
\* data.TimeFormats
TimeFormats ==
    MapOf({<<"simple", "2006-01-02 15:04:05">>,
           <<"simpletz", "2006-01-02 15:04:05 -0700">>})

\* time.LoadLocation, as the zone's offset from UTC in seconds: the fixed-offset
\* zones "UTC" (also named by "") and "EST"; any other name is taken as unknown
LoadLocation(z) ==
    IF z \in {Runes("UTC"), <<>>} THEN [err |-> "", off |-> 0]
    ELSE IF z = Runes("EST") THEN [err |-> "", off |-> -18000]
    ELSE [err |-> ErrZone, off |-> 0]

\* the civil date and clock time of the instant ut (Unix seconds) at offset off
CivilTime(ut, off) ==
    LET local == ut + off
        days  == local \div 86400
        secs  == local % 86400
        z     == days + 719468
        era   == z \div 146097
        doe   == z - era * 146097
        yoe   == (doe - (doe \div 1460) + (doe \div 36524) - (doe \div 146096)) \div 365
        doy   == doe - (365 * yoe + (yoe \div 4) - (yoe \div 100))
        mp    == (5 * doy + 2) \div 153
        m     == IF mp < 10 THEN mp + 3 ELSE mp - 9
    IN  [year |-> yoe + era * 400 + (IF m <= 2 THEN 1 ELSE 0), month |-> m,
         day |-> doy - ((153 * mp + 2) \div 5) + 1,
         hour |-> secs \div 3600, minute |-> (secs % 3600) \div 60, second |-> secs % 60,
         off |-> off]

HasPrefix(t, pre) == Len(t) >= Len(pre) /\ SubSeq(t, 1, Len(pre)) = pre

\* the "-0700" element
ZoneOffsetText(off) ==
    LET mag == IF off < 0 THEN -off ELSE off
    IN  <<IF off < 0 THEN "-" ELSE "+">> \o PadLeft(NatText(mag \div 3600), 2)
        \o PadLeft(NatText((mag % 3600) \div 60), 2)

\* time.Time.Format for layouts made of the reference elements 2006 01 02 15 04 05
\* -0700 and of text that holds no other reference element
RECURSIVE Format(_, _)
Format(ct, layout) ==
    IF layout = <<>> THEN <<>>
    ELSE IF HasPrefix(layout, Runes("2006"))
    THEN PadLeft(NatText(ct.year), 4) \o Format(ct, SubSeq(layout, 5, Len(layout)))
    ELSE IF HasPrefix(layout, Runes("-0700"))
    THEN ZoneOffsetText(ct.off) \o Format(ct, SubSeq(layout, 6, Len(layout)))
    ELSE IF HasPrefix(layout, Runes("01"))
    THEN PadLeft(NatText(ct.month), 2) \o Format(ct, SubSeq(layout, 3, Len(layout)))
    ELSE IF HasPrefix(layout, Runes("02"))
    THEN PadLeft(NatText(ct.day), 2) \o Format(ct, SubSeq(layout, 3, Len(layout)))
    ELSE IF HasPrefix(layout, Runes("15"))
    THEN PadLeft(NatText(ct.hour), 2) \o Format(ct, SubSeq(layout, 3, Len(layout)))
    ELSE IF HasPrefix(layout, Runes("04"))
    THEN PadLeft(NatText(ct.minute), 2) \o Format(ct, SubSeq(layout, 3, Len(layout)))
    ELSE IF HasPrefix(layout, Runes("05"))
    THEN PadLeft(NatText(ct.second), 2) \o Format(ct, SubSeq(layout, 3, Len(layout)))
    ELSE <<Head(layout)>> \o Format(ct, Tail(layout))

formatTime(ct, format) ==
    IF format \in DOMAIN TimeFormats THEN Format(ct, TimeFormats[format])
    ELSE Format(ct, format)

\* sample of the instants time.Now() may return (Unix seconds)
NowInstants == {1455512165, 1455512166}

now(oc, opts) ==
    LET f   == Opt(opts, "format")
        loc == LoadLocation(Opt(opts, "zone"))
        ord == getInt(opts, "ordinal")
    IN  IF loc.err # "" THEN {Fail(loc.err, oc)}
        ELSE IF ord.err # "" THEN {Fail(ord.err, oc)}
        ELSE IF ord.v >= 0
        THEN IF OrdinalMissing(oc["now"], ord.v) THEN {Fail(ErrOrdinal, oc)}
             ELSE {Ok(oc["now"][ord.v + 1], oc)}
        ELSE {Ok(formatTime(CivilTime(t, loc.off), f),
                 CacheAppend(oc, "now", formatTime(CivilTime(t, loc.off), f))) :
                t \in NowInstants}

\* faulty variant: the draw includes the upper bound
datetimeInstantsClosed(min, max) == {r + min : r \in Intn(max - min + 1)}

\* the instants datetime() may draw: rand.Int63n(diff) + min, or min when diff = 0
datetimeInstants(min, max) ==
    IF max - min > 0 THEN {r + min : r \in Intn(max - min)} ELSE {min}

datetime(oc, opts) ==
    LET min == getInt(opts, "min")
        max == getInt(opts, "max")
        loc == LoadLocation(Opt(opts, "zone"))
        f   == Opt(opts, "format")
        ord == getInt(opts, "ordinal")
    IN  IF min.err # "" THEN {Fail(min.err, oc)}
        ELSE IF max.err # "" THEN {Fail(max.err, oc)}
        ELSE IF min.v > max.v THEN {Fail(ErrRange, oc)}
        ELSE IF loc.err # "" THEN {Fail(loc.err, oc)}
        ELSE IF ord.err # "" THEN {Fail(ord.err, oc)}
        ELSE IF ord.v >= 0
        THEN IF OrdinalMissing(oc["time"], ord.v) THEN {Fail(ErrOrdinal, oc)}
             ELSE {Ok(oc["time"][ord.v + 1], oc)}
        ELSE {Ok(formatTime(CivilTime(ut, loc.off), f),
                 CacheAppend(oc, "time", formatTime(CivilTime(ut, loc.off), f))) :
                ut \in datetimeInstants(min.v, max.v)}

(***************************************************************************)
(* firstname and lastname                                                  *)
(***************************************************************************)
\* data.FirstNames / data.LastNames: a sample of the name tables, each entry the
\* spellings of one name by language
FirstNames ==
    << MapOf({<<"english", "John">>, <<"spanish", "Juan">>}),
       MapOf({<<"english", "Mary">>}) >>

LastNames ==
    << MapOf({<<"english", "Smith">>}),
       MapOf({<<"english", "King">>, <<"spanish", "Rey">>}) >>

\* Name.GetSpelling: the spelling in the language asked for, else the English one
GetSpelling(entry, lang) == IF lang \in DOMAIN entry THEN entry[lang] ELSE entry[English]

\* the presentation of a cached or fresh name
nameCase(cCase, str) ==
    IF cCase = Runes("up") THEN ToUpper(str)
    ELSE IF cCase = Runes("down") THEN ToLower(str)
    ELSE str

name(nameType, names, oc, opts) ==
    LET cCase == Opt(opts, "case")
        lang  == Opt(opts, "language")
        ord   == getInt(opts, "ordinal")
    IN  IF ord.err # "" THEN {Fail(ord.err, oc)}
        ELSE IF ord.v >= 0
        THEN IF OrdinalMissing(oc[nameType], ord.v) THEN {Fail(ErrOrdinal, oc)}
             ELSE {Ok(nameCase(cCase, oc[nameType][ord.v + 1]), oc)}
        ELSE {Ok(nameCase(cCase, GetSpelling(names[n + 1], lang)),
                 CacheAppend(oc, nameType, GetSpelling(names[n + 1], lang))) :
                n \in Intn(Len(names))}

firstname(oc, opts) == name("firstname", FirstNames, oc, opts)

lastname(oc, opts) == name("lastname", LastNames, oc, opts)

(***************************************************************************)
(* resolveWord: the outcomes of the generator the word names; a word that  *)
(* names none yields "" and no error.                                      *)
(***************************************************************************)
resolveWord(oc, word, opts) ==
    IF word = Runes("guid") THEN guid(oc, opts)
    ELSE IF word = Runes("int") THEN integer(oc, opts)
    ELSE IF word = Runes("now") THEN now(oc, opts)
    ELSE IF word = Runes("time") THEN datetime(oc, opts)
    ELSE IF word = Runes("float") THEN float(oc, opts)
    ELSE IF word = Runes("unicode") THEN unicode(oc, opts)
    ELSE IF word = Runes("country") THEN country(oc, opts)
    ELSE IF word = Runes("firstname") THEN firstname(oc, opts)
    ELSE IF word = Runes("lastname") THEN lastname(oc, opts)
    ELSE {Ok(<<>>, oc)}


(***************************************************************************)
(* The templates the model is run on.                                      *)
(***************************************************************************)
\* the token {word} or {word:options}
Token(word, options) ==
    "{" \o word \o (IF options = "" THEN "" ELSE ":" \o options) \o "}"

WordNames == {"guid", "int", "float", "now", "time", "unicode", "country",
              "firstname", "lastname"}

\* option strings for a first token that generates a value
FirstOptions(word) ==
    IF word = "int" THEN {"", "min:1|max:2", "min:-2|max:-1", "ordinal:-2"}
    ELSE IF word = "float" THEN {"", "min:-2.5|max:-1.0", "min:1.5|max:1.5"}
    ELSE IF word = "now" THEN {"", "format:simpletz|zone:EST"}
    ELSE IF word = "time" THEN {"", "min:1|max:3|zone:EST", "format:15:04:05|min:7|max:7"}
    ELSE IF word = "unicode" THEN {"length:1", "length:1|case:up", "length:1|case:down"}
    ELSE IF word = "country" THEN {"", "case:down", "case:up"}
    ELSE IF word \in {"firstname", "lastname"}
    THEN {"", "case:up", "case:down", "language:spanish"}
    ELSE {""}

\* a token of the word that generates a value, with few outcomes
Fresh(word) == IF word = "unicode" THEN Token(word, "length:1") ELSE Token(word, "")

OrdinalTemplates ==
    UNION {
        {Token(w, f) \o "@" \o Token(w, "ordinal:0") : f \in FirstOptions(w)}
        \cup {Fresh(w) \o "@" \o Token(w, "ordinal:1"),
              Token(w, "ordinal:1"),
              Token(w, "ordinal:0"),
              Token(w, "ordinal:0") \o "@" \o Fresh(w),
              Fresh(w) \o Fresh(w) \o "@" \o Token(w, "ordinal:1")}
        : w \in WordNames}

LiteralTemplates ==
    {"", "a", "}", ":", "|", "a}b", "x:y|z}", "}}", "INSERT (NULL,-3)"}

OptionValues == (-MaxAbs)..MaxAbs

RangeTemplates ==
    {Token(w, "min:" \o ToString(a) \o "|max:" \o ToString(b)) :
        w \in {"int", "float", "time"}, a \in OptionValues, b \in OptionValues}

MixedTemplates ==
    {"Hey I'm {int:min:1|max:9} years old", "{guid}", "{unicode}", "a{country}b{country}c",
     "{int}{int}", "x{nope}y", "{}", "('{now}',{float:min:-1.5|max:-0.5})",
     "{time:min:1|max:1|format:simple|zone:EST}", "{country:case:up|ordinal:0}}",
     "{int:min:5|max:6}", "{int:min:x}", "{time:zone:Mars}", "{firstname} {lastname}", "{int:min}", "a{int",
     "{unicode:case:up}", "{unicode:length:0}", "{unicode:length:-1|case:up}",
     "{unicode:length:two}", "{unicode}{unicode:length:0|ordinal:0}",
     "{ascii}", "{integer}", "{int:min:5|}", "{int:min:5|max}", "ok{guid:ordinal}",
     "{float:max:x}", "{guid:ordinal:x}", "{time:max:1x}", "{country}{country:ordinal:zero}",
     "{now:ordinal:}", "{firstname:ordinal:1.0}", "{time:min:5|max:1|ordinal:x}",
     "{country:case:sideways}", "{firstname:case:Up}", "{unicode:length:1|case:lower}",
     "{lastname}{lastname:case:|ordinal:0}",
     "{guid:color:red}", "{int:max:5|flavor:mild}", "{int:max:2|min:1}",
     "{time:format:2006-01-02 15:04:05}", "{nope:a:b:c}", "{int:}",
     "{country}{guid}-{country:ordinal:0}{guid}{guid:ordinal:3}",
     "a{b{c}d}e", "{{int}}", "}{guid:x{:1}}",
     "{guid}-{int:min:1", "x{", "{int:min"}

\* a token with a negative ordinal other than -1, and a replay of its value
NegativeOrdinalTemplates ==
    {Token(w, (IF w = "unicode" THEN "length:1|" ELSE "") \o "ordinal:-2")
        \o "@" \o Token(w, "ordinal:0") : w \in WordNames}
    \cup {"{guid:ordinal:-7}"}

Templates ==
    {Runes(t) : t \in OrdinalTemplates \cup LiteralTemplates \cup RangeTemplates
                        \cup MixedTemplates \cup NegativeOrdinalTemplates}

(***************************************************************************)
(* The state machine: a caller builds the Callstack of a template and      *)
(* calls Write on it; each pass of Write is at a position of its loop.     *)
(***************************************************************************)
Passes == {"A", "B"}

\* the command line program is not running
NoCli == [pc |-> "none"]

\* no option map is looked at by reference
NoHeap == [pc |-> "none"]

\* the cache field of a Callstack that Write has not been called on
NilCache == [c \in {} |-> <<>>]

Init ==
    /\ template \in Templates
    /\ built = "new"
    /\ stack = <<>>
    /\ cache = NilCache
    /\ pc = [p \in Passes |-> "idle"]
    /\ idx = [p \in Passes |-> 0]
    /\ result = [p \in Passes |-> <<>>]
    /\ err = [p \in Passes |-> ""]
    /\ emits = [p \in Passes |-> <<>>]
    /\ gen = [p \in Passes |-> newObjectCache]
    /\ calls = [p \in Passes |-> 0]
    /\ cli = NoCli
    /\ heap = NoHeap

\* BuildCallstack(template)
BuildCallstack ==
    /\ built = "new"
    /\ LET b == BuildCallstackOf(template)
       IN  /\ built' = (IF b.panic # "" THEN "panic" ELSE "ok")
           /\ stack' = b.stack
    /\ UNCHANGED <<template, cache, pc, idx, result, err, emits, gen, calls, cli, heap>>

\* faulty variant: Write keeps the cache of the previous call
WriteCacheKept(old) == IF old = NilCache THEN newObjectCache ELSE old

\* the cache a Write call starts from
WriteCache(old) == newObjectCache

\* Write, up to its loop: c.cache = newObjectCache(); the caller passes an empty buffer
WriteBegin(p) ==
    /\ built = "ok"
    /\ pc[p] \in {"idle", "returned"}
    /\ calls[p] < MaxWrites
    /\ cache' = WriteCache(cache)
    /\ pc' = [pc EXCEPT ![p] = "loop"]
    /\ idx' = [idx EXCEPT ![p] = 1]
    /\ result' = [result EXCEPT ![p] = <<>>]
    /\ err' = [err EXCEPT ![p] = ""]
    /\ emits' = [emits EXCEPT ![p] = <<>>]
    /\ gen' = [gen EXCEPT ![p] = newObjectCache]
    /\ calls' = [calls EXCEPT ![p] = @ + 1]
    /\ UNCHANGED <<template, built, stack, cli, heap>>

\* the values by which cache oc2 extends cache oc1, added to the log g
Generated(g, oc1, oc2) ==
    [c \in Commands |->
        IF Len(oc2[c]) > Len(oc1[c]) THEN Append(g[c], oc2[c][Len(oc2[c])]) ELSE g[c]]

\* faulty variant: the loop goes on after a closure that failed
WriteStepGoesOn(p) ==
    /\ pc[p] = "loop"
    /\ idx[p] <= Len(stack)
    /\ LET f == stack[idx[p]]
       IN  IF f.lit
           THEN /\ result' = [result EXCEPT ![p] = @ \o f.text]
                /\ emits' = [emits EXCEPT ![p] = Append(@, f.text)]
                /\ idx' = [idx EXCEPT ![p] = @ + 1]
                /\ UNCHANGED <<cache, pc, err, gen>>
           ELSE \E o \in resolveWord(cache, f.text, f.opts) :
                  IF o.panic # ""
                  THEN /\ pc' = [pc EXCEPT ![p] = "panicked"]
                       /\ err' = [err EXCEPT ![p] = o.panic]
                       /\ UNCHANGED <<cache, idx, result, emits, gen>>
                  ELSE IF o.err # ""
                  THEN /\ err' = [err EXCEPT ![p] = o.err]
                       /\ cache' = o.oc
                       /\ idx' = [idx EXCEPT ![p] = @ + 1]
                       /\ emits' = [emits EXCEPT ![p] = Append(@, <<>>)]
                       /\ UNCHANGED <<pc, result, gen>>
                  ELSE /\ result' = [result EXCEPT ![p] = @ \o o.val]
                       /\ emits' = [emits EXCEPT ![p] = Append(@, o.val)]
                       /\ cache' = o.oc
                       /\ gen' = [gen EXCEPT ![p] = Generated(@, cache, o.oc)]
                       /\ idx' = [idx EXCEPT ![p] = @ + 1]
                       /\ UNCHANGED <<pc, err>>
    /\ UNCHANGED <<template, built, stack, calls, cli, heap>>

\* one iteration of the loop of Write: f(result, c.cache) for the closure at idx
WriteStep(p) ==
    /\ pc[p] = "loop"
    /\ idx[p] <= Len(stack)
    /\ LET f == stack[idx[p]]
       IN  IF f.lit
           THEN /\ result' = [result EXCEPT ![p] = @ \o f.text]
                /\ emits' = [emits EXCEPT ![p] = Append(@, f.text)]
                /\ idx' = [idx EXCEPT ![p] = @ + 1]
                /\ UNCHANGED <<cache, pc, err, gen>>
           ELSE \E o \in resolveWord(cache, f.text, f.opts) :
                  IF o.panic # ""
                  THEN /\ pc' = [pc EXCEPT ![p] = "panicked"]
                       /\ err' = [err EXCEPT ![p] = o.panic]
                       /\ UNCHANGED <<cache, idx, result, emits, gen>>
                  ELSE IF o.err # ""
                  THEN /\ pc' = [pc EXCEPT ![p] = "returned"]
                       /\ err' = [err EXCEPT ![p] = o.err]
                       /\ cache' = o.oc
                       /\ UNCHANGED <<idx, result, emits, gen>>
                  ELSE /\ result' = [result EXCEPT ![p] = @ \o o.val]
                       /\ emits' = [emits EXCEPT ![p] = Append(@, o.val)]
                       /\ cache' = o.oc
                       /\ gen' = [gen EXCEPT ![p] = Generated(@, cache, o.oc)]
                       /\ idx' = [idx EXCEPT ![p] = @ + 1]
                       /\ UNCHANGED <<pc, err>>
    /\ UNCHANGED <<template, built, stack, calls, cli, heap>>

\* faulty variant: Write consumes the stack it ran
WriteReturnConsumes(p) ==
    /\ pc[p] = "loop"
    /\ idx[p] > Len(stack)
    /\ pc' = [pc EXCEPT ![p] = "returned"]
    /\ stack' = <<>>
    /\ UNCHANGED <<template, built, cache, idx, result, err, emits, gen, calls, cli, heap>>

\* the end of the loop of Write: return nil
WriteReturn(p) ==
    /\ pc[p] = "loop"
    /\ idx[p] > Len(stack)
    /\ pc' = [pc EXCEPT ![p] = "returned"]
    /\ UNCHANGED <<template, built, stack, cache, idx, result, err, emits, gen, calls, cli, heap>>

\* one caller, pass A: the Write calls on the Callstack follow each other
Next ==
    \/ BuildCallstack
    \/ WriteBegin("A")
    \/ WriteStep("A")
    \/ WriteReturn("A")

Spec == Init /\ [][Next]_vars


(***************************************************************************)
(* Two callers: passes A and B call Write on the same Callstack with no    *)
(* coordination.  The passes interleave at the iterations of the loop of   *)
(* Write; both read and write the one cache the Callstack's field holds,   *)
(* and the runtime may abort the process when both are inside a generator. *)
(***************************************************************************)
ConcTemplates ==
    {Runes(t) : t \in {"{guid}@{guid:ordinal:0}", "{guid}@{guid:ordinal:1}",
                       "{int:min:1|max:2}@{int:ordinal:0}", "{country:ordinal:0}@{country}",
                       "{now:ordinal:0}", "a{firstname}"}}

InitConc ==
    /\ template \in ConcTemplates
    /\ built = "new"
    /\ stack = <<>>
    /\ cache = NilCache
    /\ pc = [p \in Passes |-> "idle"]
    /\ idx = [p \in Passes |-> 0]
    /\ result = [p \in Passes |-> <<>>]
    /\ err = [p \in Passes |-> ""]
    /\ emits = [p \in Passes |-> <<>>]
    /\ gen = [p \in Passes |-> newObjectCache]
    /\ calls = [p \in Passes |-> 0]
    /\ cli = NoCli
    /\ heap = NoHeap

\* pass p is about to call a generator
InGenerator(p) ==
    /\ pc[p] = "loop"
    /\ idx[p] <= Len(stack)
    /\ ~stack[idx[p]].lit
    /\ \E w \in WordNames : stack[idx[p]].text = Runes(w)

\* the passes p and q access the cache map at the same time: the runtime's
\* "concurrent map read and map write" check ends the process
WriteRace(p) ==
    /\ InGenerator(p)
    /\ \E q \in Passes \ {p} : InGenerator(q)
    /\ pc' = [q \in Passes |-> "fatal"]
    /\ UNCHANGED <<template, built, stack, cache, idx, result, err, emits, gen, calls, cli, heap>>

NextConc ==
    \/ BuildCallstack
    \/ \E p \in Passes : WriteBegin(p)
    \/ \E p \in Passes : WriteStep(p)
    \/ \E p \in Passes : WriteReturn(p)
    \/ \E p \in Passes : WriteRace(p)

SpecConc == InitConc /\ [][NextConc]_vars

(***************************************************************************)
(* The command: moldova -t <template> -n <count>.  main parses the flags,  *)
(* calls ParseTemplate once per iteration, prints each result on a line of *)
(* its own, logs each error, and exits.                                    *)
(***************************************************************************)
\* one iteration of the loop of ParseTemplate over the runes of the template, on
\* each state s of the function that the draws so far can lead to
ParseRune(s, c) ==
    IF s.panic # "" \/ s.err # "" THEN {s}
    ELSE IF c = "{" THEN {[s EXCEPT !.foundWord = TRUE]}
    ELSE IF c = "}"
    THEN LET parts   == SplitN2(s.wordBuffer, ":")
             rawOpts == IF Len(parts) > 1 THEN parts[2] ELSE <<>>
             o       == optionsToMap(parts[1], rawOpts)
         IN  IF o.panic # "" THEN {[s EXCEPT !.panic = o.panic]}
             ELSE {IF r.panic # "" THEN [s EXCEPT !.panic = r.panic]
                   ELSE IF r.err # "" THEN [s EXCEPT !.err = r.err]
                   ELSE [s EXCEPT !.foundWord = FALSE, !.wordBuffer = <<>>,
                                  !.result = @ \o r.val, !.oc = r.oc] :
                      r \in resolveWord(s.oc, parts[1], o.m)}
    ELSE IF s.foundWord THEN {[s EXCEPT !.wordBuffer = Append(@, c)]}
    ELSE {[s EXCEPT !.result = Append(@, c)]}

RECURSIVE ParseFrom(_, _, _)
ParseFrom(S, t, k) ==
    IF k > Len(t) THEN S
    ELSE ParseFrom(UNION {ParseRune(s, t[k]) : s \in S}, t, k + 1)

\* ParseTemplate(inputTemplate): the results it may return, or the panic it raises
ParseTemplate(inputTemplate) ==
    {[panic |-> s.panic, err |-> s.err, text |-> IF s.err # "" THEN <<>> ELSE s.result] :
        s \in ParseFrom({[panic |-> "", err |-> "", result |-> <<>>, wordBuffer |-> <<>>,
                          foundWord |-> FALSE, oc |-> newObjectCache]},
                        inputTemplate, 1)}

\* the values of the -t flag the command is run with ("" when it is not given)
CliTemplates ==
    {Runes(t) : t \in {"", "x", "{country}", "{int:min:1|max:2}@{int:ordinal:0}",
                       "{guid:ordinal:0}", "{country}{country:ordinal:1}",
                       "{int:min:5|max:5}", "{int:min}", "{now:zone:EST}"}}

\* the values of the -n flag (1 when it is not given)
CliCounts == (-1)..MaxIter

\* what log.Fatal, a normal return with didErr, and a panic make the exit code
ExitFatal == 1
ExitPanic == 2

InitCLI ==
    /\ template = <<>>
    /\ built = "new"
    /\ stack = <<>>
    /\ cache = NilCache
    /\ pc = [p \in Passes |-> "idle"]
    /\ idx = [p \in Passes |-> 0]
    /\ result = [p \in Passes |-> <<>>]
    /\ err = [p \in Passes |-> ""]
    /\ emits = [p \in Passes |-> <<>>]
    /\ gen = [p \in Passes |-> newObjectCache]
    /\ calls = [p \in Passes |-> 0]
    /\ heap = NoHeap
    /\ \E n \in CliCounts, t \in CliTemplates :
          cli = [pc |-> "start", n |-> n, t |-> t, iterations |-> 0, i |-> 0,
                 didErr |-> FALSE, out |-> <<>>, logged |-> 0, code |-> 0,
                 parses |-> 0]

\* getConfig, and log.Fatal in main when it fails
getConfig ==
    /\ cli.pc = "start"
    /\ cli' = IF cli.t = <<>>
              THEN [cli EXCEPT !.pc = "exited", !.code = ExitFatal, !.logged = 1]
              ELSE [cli EXCEPT !.pc = "loop",
                               !.iterations = IF cli.n <= 0 THEN 1 ELSE cli.n]
    /\ UNCHANGED <<template, built, stack, cache, pc, idx, result, err, emits, gen, calls, heap>>

\* one iteration of the loop of main; cli.parses counts the scans of the template
Iterate ==
    /\ cli.pc = "loop"
    /\ cli.i < cli.iterations
    /\ \E o \in ParseTemplate(cli.t) :
          cli' = IF o.panic # ""
                 THEN [cli EXCEPT !.pc = "crashed", !.code = ExitPanic, !.parses = @ + 1]
                 ELSE IF o.err # ""
                 THEN [cli EXCEPT !.logged = @ + 1, !.didErr = TRUE, !.i = @ + 1,
                                  !.parses = @ + 1]
                 ELSE [cli EXCEPT !.out = Append(@, o.text \o <<"\n">>), !.i = @ + 1,
                                  !.parses = @ + 1]
    /\ UNCHANGED <<template, built, stack, cache, pc, idx, result, err, emits, gen, calls, heap>>

\* the end of main: os.Exit(1) if didErr
Exit ==
    /\ cli.pc = "loop"
    /\ cli.i >= cli.iterations
    /\ cli' = [cli EXCEPT !.pc = "exited", !.code = IF cli.didErr THEN ExitFatal ELSE 0]
    /\ UNCHANGED <<template, built, stack, cache, pc, idx, result, err, emits, gen, calls, heap>>

NextCLI ==
    \/ getConfig
    \/ Iterate
    \/ Exit

SpecCLI == InitCLI /\ [][NextCLI]_vars

(***************************************************************************)
(* The option maps as Go holds them: a map value is a reference.  heap.maps *)
(* is the store of the maps, the first of them the package-level           *)
(* defaultOptions, and heap.steps lists, for the tokens compiled so far by *)
(* the calls of BuildCallstack, the word, the option text and the          *)
(* reference of the mapping its closure captured.                          *)
(***************************************************************************)
\* the keys of the package-level defaultOptions, in the order of their maps
DefaultNames ==
    <<"guid", "now", "time", "int", "float", "ascii", "unicode", "country",
      "firstname", "lastname">>

\* defaultOptions[name]: the reference of the defaults of the command, 0 for the nil map
DefaultRef(cmd) ==
    IF \E i \in 1..Len(DefaultNames) : Runes(DefaultNames[i]) = cmd
    THEN CHOOSE i \in 1..Len(DefaultNames) : Runes(DefaultNames[i]) = cmd
    ELSE 0

\* faulty variant: m := defaults
makeMapShared(h, cmd) ==
    IF DefaultRef(cmd) # 0 THEN [h |-> h, ref |-> DefaultRef(cmd)]
    ELSE [h |-> [h EXCEPT !.maps = Append(@, EmptyMap)], ref |-> Len(h.maps) + 1]

\* m := make(map[string]string); for k, v := range defaults { m[k] = v }
makeMap(h, cmd) ==
    [h   |-> [h EXCEPT !.maps = Append(@, IF DefaultRef(cmd) = 0 THEN EmptyMap
                                          ELSE h.maps[DefaultRef(cmd)])],
     ref |-> Len(h.maps) + 1]

\* optionsToMap on the store h: the reference of the map it returns
optionsToMapAt(h, cmd, options) ==
    LET mk == makeMap(h, cmd)
        r  == IF Len(options) = 0 THEN [panic |-> "", m |-> mk.h.maps[mk.ref]]
              ELSE ApplyParts(mk.h.maps[mk.ref], Split(options, "|"))
    IN  [panic |-> r.panic, ref |-> mk.ref, h |-> [mk.h EXCEPT !.maps[mk.ref] = r.m]]

\* one iteration of the loop of BuildCallstack, on the store sc.h
ScanRuneAt(sc, c) ==
    IF sc.panic # "" THEN sc
    ELSE IF ~sc.foundWord /\ c = "{"
    THEN [sc EXCEPT !.foundWord = TRUE, !.wordBuffer = <<>>]
    ELSE IF sc.foundWord /\ c = "}"
    THEN LET parts   == SplitN2(sc.wordBuffer, ":")
             rawOpts == IF Len(parts) > 1 THEN parts[2] ELSE <<>>
             o       == optionsToMapAt(sc.h, parts[1], rawOpts)
         IN  IF o.panic # "" THEN [sc EXCEPT !.panic = o.panic, !.h = o.h]
             ELSE [sc EXCEPT !.foundWord = FALSE, !.wordBuffer = <<>>,
                             !.h = [o.h EXCEPT !.steps =
                                       Append(@, [word |-> parts[1], options |-> rawOpts,
                                                  ref |-> o.ref])]]
    ELSE [sc EXCEPT !.wordBuffer = Append(@, c)]

RECURSIVE ScanAt(_, _, _)
ScanAt(sc, t, k) == IF k > Len(t) THEN sc ELSE ScanAt(ScanRuneAt(sc, t[k]), t, k + 1)

\* the templates that are compiled one after the other
CompileTemplates ==
    {Runes(t) : t \in {"{int}", "{int:min:5|max:6}", "{int:max:2}{int}",
                       "{guid}{country:case:down}{country}", "{nope:a:b}", "{int:min}"}}

InitCompile ==
    /\ template = <<>>
    /\ built = "new"
    /\ stack = <<>>
    /\ cache = NilCache
    /\ pc = [p \in Passes |-> "idle"]
    /\ idx = [p \in Passes |-> 0]
    /\ result = [p \in Passes |-> <<>>]
    /\ err = [p \in Passes |-> ""]
    /\ emits = [p \in Passes |-> <<>>]
    /\ gen = [p \in Passes |-> newObjectCache]
    /\ calls = [p \in Passes |-> 0]
    /\ cli = NoCli
    /\ heap = [pc |-> "ready", n |-> 0, steps |-> <<>>,
               maps |-> [i \in 1..Len(DefaultNames) |-> defaultOptions(Runes(DefaultNames[i]))]]

\* a call of BuildCallstack(t); a panic of optionsToMap ends the program
Compile ==
    /\ heap.pc = "ready"
    /\ heap.n < MaxCompiles
    /\ \E t \in CompileTemplates :
          LET sc == ScanAt([panic |-> "", h |-> heap, wordBuffer |-> <<>>,
                            foundWord |-> FALSE], t, 1)
          IN  heap' = [sc.h EXCEPT !.n = @ + 1,
                                   !.pc = IF sc.panic # "" THEN "panicked" ELSE "ready"]
    /\ UNCHANGED <<template, built, stack, cache, pc, idx, result, err, emits, gen, calls, cli>>

NextCompile == Compile

SpecCompile == InitCompile /\ [][NextCompile]_vars

(***************************************************************************)
(* Vocabulary of the properties.                                           *)
(***************************************************************************)
\* step j of the stack invokes the generator of word w
IsWord(j, w) == ~stack[j].lit /\ stack[j].text = Runes(w)

\* the word of a step that invokes a known generator
WordOf(j) == CHOOSE w \in WordNames : stack[j].text = Runes(w)

IsKnownWord(j) == \E w \in WordNames : IsWord(j, w)

\* the ordinal option of step j parses to k
OrdinalIs(j, k) == getInt(stack[j].opts, "ordinal") = [err |-> "", v |-> k]

\* step j asks for a fresh value: its ordinal parses to a negative number
IsFresh(j) ==
    getInt(stack[j].opts, "ordinal").err = "" /\ getInt(stack[j].opts, "ordinal").v < 0

\* step j asks for a replay: its ordinal parses to a number >= 0
IsReplay(j) ==
    getInt(stack[j].opts, "ordinal").err = "" /\ getInt(stack[j].opts, "ordinal").v >= 0

\* pass p has completed step j of its current Write call
Executed(p, j) == pc[p] \in {"loop", "returned", "panicked"} /\ j \in 1..Len(emits[p])

\* pass p takes a step of its loop from position j
StepsAt(p, j) ==
    /\ pc[p] = "loop" /\ idx[p] = j /\ j <= Len(stack)
    /\ (pc'[p] # pc[p] \/ idx'[p] # idx[p])

\* the word steps of the stack with the same word as step j
SameWord(j) == {i \in 1..Len(stack) : ~stack[i].lit /\ stack[i].text = stack[j].text}

CaseWords == {"country", "unicode", "firstname", "lastname"}

(***************************************************************************)
(* C1                                                                      *)
(***************************************************************************)
\* the template has exactly two tokens of one command, at steps i < j, the second
\* with ordinal:0, and pass p has completed both
TwoTokens(p, i, j) ==
    /\ i < j /\ Executed(p, j)
    /\ IsKnownWord(j) /\ SameWord(j) = {i, j}
    /\ OrdinalIs(j, 0)

\* C1 as stated: for every command and any options on the first token, in a
\* template with two tokens of the command where the second has ordinal:0, the two
\* substrings emitted in one Write call are identical
C1_AnyOptions ==
    \A p \in Passes : \A i, j \in 1..Len(stack) :
        TwoTokens(p, i, j) => emits[p][i] = emits[p][j]

\* C1 amended: ... provided that, for country, unicode, firstname and lastname,
\* both tokens resolve to the same case option
C1_SameCase ==
    \A p \in Passes : \A i, j \in 1..Len(stack) :
        /\ TwoTokens(p, i, j)
        /\ WordOf(j) \in CaseWords => Opt(stack[i].opts, "case") = Opt(stack[j].opts, "case")
        => emits[p][i] = emits[p][j]

\* a pass has emitted the pair for an all-negative int range on the first token
C1_Witness ==
    \E p \in Passes : \E i, j \in 1..Len(stack) :
        /\ TwoTokens(p, i, j) /\ IsWord(j, "int")
        /\ Opt(stack[i].opts, "max") = Runes("-1")
        /\ emits[p][j] = Runes("-1")


(***************************************************************************)
(* C2                                                                      *)
(***************************************************************************)
\* step j of pass p replays an ordinal that is not smaller than the number of
\* fresh values of its command that earlier steps of the pass generated
OrdinalTooLarge(p, j) ==
    /\ IsKnownWord(j) /\ IsReplay(j)
    /\ getInt(stack[j].opts, "ordinal").v >= Len(gen[p][WordOf(j)])

\* C2: for every command, a token whose ordinal k >= 0 is not smaller than the
\* number of fresh values of the command generated by earlier steps of the same
\* pass makes Write return an error: the pass does not panic and emits nothing
C2_OrdinalError ==
    [][\A p \in Passes : \A j \in 1..Len(stack) :
          StepsAt(p, j) /\ OrdinalTooLarge(p, j)
          => /\ pc'[p] = "returned" /\ err'[p] # ""
             /\ result'[p] = result[p] /\ emits'[p] = emits[p]]_vars

\* a Write call has failed on ordinal:1 after it generated one value of the command
C2_Witness ==
    \E p \in Passes :
        /\ pc[p] = "returned" /\ err[p] = ErrOrdinal
        /\ idx[p] <= Len(stack) /\ OrdinalIs(idx[p], 1)
        /\ IsWord(idx[p], "float") /\ Len(gen[p]["float"]) = 1

(***************************************************************************)
(* C3                                                                      *)
(***************************************************************************)
\* C3: at the start of every Write call the cache sequence of every command is
\* empty, whatever happened in earlier calls; during a call the cache holds the
\* values generated in that call and no other, so that {guid:ordinal:0} alone
\* fails on every call
C3_FreshCachePerCall ==
    \A p \in Passes :
        /\ pc[p] = "loop" /\ idx[p] = 1 => \A c \in Commands : cache[c] = <<>>
        /\ pc[p] \in {"loop", "returned"} => cache = gen[p]
        /\ template = Runes("{guid:ordinal:0}") /\ pc[p] = "returned"
           => err[p] = ErrOrdinal

\* the second Write call on a Callstack has generated one value and then failed on
\* ordinal:1, which the value of the first call would have satisfied
C3_Witness ==
    \E p \in Passes :
        /\ calls[p] = 2 /\ pc[p] = "returned" /\ err[p] = ErrOrdinal
        /\ template = Runes("{guid}@{guid:ordinal:1}")
        /\ Len(cache["guid"]) = 1


(***************************************************************************)
(* C4                                                                      *)
(***************************************************************************)
\* the step pass p takes matches outcome o of its generator: the error returned,
\* or the text emitted
StepMatches(p, o) ==
    IF o.err # "" THEN pc'[p] = "returned" /\ err'[p] = o.err /\ emits'[p] = emits[p]
    ELSE pc'[p] = "loop" /\ emits'[p] = Append(emits[p], o.val)

\* C4: when two Write calls on the same Callstack run concurrently, each pass
\* resolves its ordinals against the values its own steps generated: a replay step
\* ends as it would on the cache of the pass alone, whatever the other pass does
C4_PassIsolation ==
    [][\A p \in Passes : \A j \in 1..Len(stack) :
          StepsAt(p, j) /\ IsKnownWord(j) /\ IsReplay(j) /\ pc'[p] # "fatal"
          => \E o \in resolveWord(gen[p], stack[j].text, stack[j].opts) :
                StepMatches(p, o)]_vars

(***************************************************************************)
(* C5                                                                      *)
(***************************************************************************)
\* the template has no "{"
NoBrace == \A k \in 1..Len(template) : template[k] # "{"

\* C5: for a template with no "{" (the empty one and those with "}", ":" or "|"
\* included) BuildCallstack succeeds, and a Write call neither fails nor panics
\* and returns exactly the text of the template
C5_LiteralVerbatim ==
    NoBrace =>
        /\ built # "panic"
        /\ \A p \in Passes :
              /\ pc[p] # "panicked"
              /\ err[p] = ""
              /\ pc[p] = "returned" => result[p] = template

C5_Witness ==
    /\ template = Runes("x:y|z}")
    /\ pc["A"] = "returned"
    /\ result["A"] = Runes("x:y|z}")

(***************************************************************************)
(* C6: the template read as L0{T1}L1...{Tn}Ln, from its runes alone.       *)
(***************************************************************************)
\* position k opens a token: a "{" with no other "{" since the last "}" before it
IsOpen(k) ==
    /\ template[k] = "{"
    /\ \A m \in 1..(k - 1) :
          template[m] = "{" => \E c \in (m + 1)..(k - 1) : template[c] = "}"

TokenOpens == {k \in 1..Len(template) : IsOpen(k)}

\* every token that opens is closed
WellFormed == \A k \in TokenOpens : \E c \in (k + 1)..Len(template) : template[c] = "}"

\* the "}" that closes the token opened at k
CloseOf(k) ==
    CHOOSE c \in (k + 1)..Len(template) :
        template[c] = "}" /\ \A d \in (k + 1)..(c - 1) : template[d] # "}"

\* the position that opens the i-th token
NthOpen(i) == CHOOSE k \in TokenOpens : Cardinality({o \in TokenOpens : o < k}) = i - 1

\* the literal run Li that follows the i-th token (L0 leads the template)
LiteralRun(i) ==
    SubSeq(template,
           IF i = 0 THEN 1 ELSE CloseOf(NthOpen(i)) + 1,
           IF i = Cardinality(TokenOpens) THEN Len(template) ELSE NthOpen(i + 1) - 1)

\* the text the i-th token produced in the current Write call of pass p
TokenText(p, i) == IF 2 * i <= Len(emits[p]) THEN emits[p][2 * i] ELSE <<>>

\* L0.v1.L1...vi.Li
RECURSIVE Rendered(_, _)
Rendered(p, i) ==
    IF i = 0 THEN LiteralRun(0)
    ELSE Rendered(p, i - 1) \o TokenText(p, i) \o LiteralRun(i)

\* C6: when every token of L0{T1}L1...{Tn}Ln rendered, the output of Write is
\* L0.v1.L1...vn.Ln: each literal run, the last one included, verbatim, once and
\* in order
C6_LiteralsInOrder ==
    \A p \in Passes :
        built = "ok" /\ WellFormed /\ pc[p] = "returned" /\ err[p] = ""
        => result[p] = Rendered(p, Cardinality(TokenOpens))

C6_Witness ==
    /\ template = Runes("a{country}b{country}c")
    /\ pc["A"] = "returned"
    /\ result["A"] = Runes("aADbUSc")

(***************************************************************************)
(* C7 - C10: the bounds of a token.                                        *)
(***************************************************************************)
\* the min and max options of step j both parse, as the numbers its generator reads
BoundsParse(j) ==
    IF IsWord(j, "float")
    THEN getFloat(stack[j].opts, "min").err = "" /\ getFloat(stack[j].opts, "max").err = ""
    ELSE getInt(stack[j].opts, "min").err = "" /\ getInt(stack[j].opts, "max").err = ""

MinOf(j) ==
    IF IsWord(j, "float") THEN getFloat(stack[j].opts, "min").v
    ELSE getInt(stack[j].opts, "min").v

MaxOf(j) ==
    IF IsWord(j, "float") THEN getFloat(stack[j].opts, "max").v
    ELSE getInt(stack[j].opts, "max").v

\* step j is an int token that generates a value from the bounds min <= max
IntInRange(j) ==
    IsWord(j, "int") /\ IsFresh(j) /\ BoundsParse(j) /\ MinOf(j) <= MaxOf(j)

\* C7: a value v generated by an int token with min <= max, in a non-negative
\* or in an all-negative range, satisfies min <= v <= max
C7_IntWithinBounds ==
    \A p \in Passes : \A j \in 1..Len(stack) :
        Executed(p, j) /\ IntInRange(j) /\ (MinOf(j) >= 0 \/ MaxOf(j) < 0)
        => /\ Atoi(emits[p][j]).err = ""
           /\ MinOf(j) <= Atoi(emits[p][j]).v
           /\ Atoi(emits[p][j]).v <= MaxOf(j)

C7_Witness ==
    /\ template = Runes("{int:min:-2|max:-1}")
    /\ Executed("A", 2)
    /\ emits["A"][2] = Runes("-1")

\* the texts an int token with the options of step j can render
IntOutputs(j) ==
    {o.val : o \in {x \in integer(newObjectCache, stack[j].opts) : x.err = "" /\ x.panic = ""}}

\* C8: the range of the int generator is inclusive at both ends: with min < max
\* both min and max are among the values the token can render
C8_BothEndsPossible ==
    \A j \in 1..Len(stack) :
        IntInRange(j) /\ MinOf(j) < MaxOf(j)
        => Itoa(MinOf(j)) \in IntOutputs(j) /\ Itoa(MaxOf(j)) \in IntOutputs(j)

\* C9: an int token without ordinal and with min <= max, min = max included,
\* renders: the Write call does not stop at it, neither with an error nor with
\* a panic
C9_IntRenders ==
    \A p \in Passes :
        pc[p] \in {"returned", "panicked"} /\ idx[p] \in 1..Len(stack) /\ IntInRange(idx[p])
        => pc[p] = "returned" /\ err[p] = ""

\* step j is an int, float or time token that generates a value, with min > max
RangeInverted(j) ==
    /\ \E w \in {"int", "float", "time"} : IsWord(j, w)
    /\ IsFresh(j) /\ BoundsParse(j) /\ MinOf(j) > MaxOf(j)

\* C10: an int, float or time token that generates a fresh value and has
\* min > max makes Write return the range error; nothing is emitted and nothing
\* is appended to the cache
C10_RangeError ==
    [][\A p \in Passes : \A j \in 1..Len(stack) :
          StepsAt(p, j) /\ RangeInverted(j)
          => /\ pc'[p] = "returned"
             /\ err'[p] = ErrRange
             /\ result'[p] = result[p]
             /\ emits'[p] = emits[p]
             /\ cache' = cache]_vars

C10_Witness ==
    /\ template = Runes("{float:min:1|max:-2}")
    /\ pc["A"] = "returned"
    /\ err["A"] = ErrRange
    /\ result["A"] = <<>>
    /\ cache = newObjectCache

(***************************************************************************)
(* C11 - C12                                                               *)
(***************************************************************************)
\* step j is an int or float token that generates a value, with min < 0 < max
Straddles(j) ==
    /\ IsWord(j, "int") \/ IsWord(j, "float")
    /\ IsFresh(j) /\ BoundsParse(j) /\ MinOf(j) < 0 /\ 0 < MaxOf(j)

\* C11: an int or float token whose range straddles zero fails fast: Write
\* returns the range error and the token produces no value
C11_StraddleFails ==
    [][\A p \in Passes : \A j \in 1..Len(stack) :
          StepsAt(p, j) /\ Straddles(j)
          => /\ pc'[p] = "returned"
             /\ err'[p] = ErrRange
             /\ emits'[p] = emits[p]]_vars

\* step j is a float token that generates a value from the bounds min <= max,
\* in a non-negative or in an all-negative range
FloatInRange(j) ==
    /\ IsWord(j, "float") /\ IsFresh(j) /\ BoundsParse(j)
    /\ MinOf(j) <= MaxOf(j)
    /\ MinOf(j) >= 0 \/ MaxOf(j) < 0

\* C12: a value v generated by a float token with min <= max, in a non-negative
\* or in an all-negative range, satisfies min <= v <= max; with min = max the
\* token yields min, and Write does not stop at such a token
C12_FloatWithinBounds ==
    \A p \in Passes :
        /\ \A j \in 1..Len(stack) :
              Executed(p, j) /\ FloatInRange(j)
              => /\ ParseFloat(emits[p][j]).err = ""
                 /\ MinOf(j) <= ParseFloat(emits[p][j]).v
                 /\ ParseFloat(emits[p][j]).v <= MaxOf(j)
        /\ pc[p] \in {"returned", "panicked"} /\ idx[p] \in 1..Len(stack)
              => ~FloatInRange(idx[p])

C12_Witness ==
    /\ template = Runes("{float:min:-2|max:-1}")
    /\ Executed("A", 2)
    /\ emits["A"][2] = Runes("-1.500000")

(***************************************************************************)
(* C13                                                                     *)
(***************************************************************************)
\* step j is a time token that generates a value from the bounds min <= max in a
\* zone that loads
TimeInRange(j) ==
    /\ IsWord(j, "time") /\ IsFresh(j) /\ BoundsParse(j)
    /\ MinOf(j) <= MaxOf(j)
    /\ LoadLocation(Opt(stack[j].opts, "zone")).err = ""

\* the instants the step may render: min alone when min = max, else those of
\* [min, max) (of which the ones within MaxDraw + 1 of a bound are compared)
InstantsOf(j) ==
    IF MinOf(j) = MaxOf(j) THEN {MinOf(j)}
    ELSE {t \in (MinOf(j)..(MinOf(j) + MaxDraw + 1)) \cup ((MaxOf(j) - MaxDraw - 1)..MaxOf(j)) :
            MinOf(j) <= t /\ t < MaxOf(j)}

\* the text of instant t in the zone and format of step j
RenderAt(j, t) ==
    formatTime(CivilTime(t, LoadLocation(Opt(stack[j].opts, "zone")).off),
               Opt(stack[j].opts, "format"))

\* C13: a time token with min = max renders the instant min, the same text on
\* every call; with min < max it renders an instant t with min <= t < max
C13_TimeInstant ==
    \A p \in Passes : \A j \in 1..Len(stack) :
        Executed(p, j) /\ TimeInRange(j)
        => \E t \in InstantsOf(j) : emits[p][j] = RenderAt(j, t)

C13_Witness ==
    /\ template = Runes("{time:min:1|max:1|format:simple|zone:EST}")
    /\ Executed("A", 2)
    /\ emits["A"][2] = Runes("1969-12-31 19:00:01")

(***************************************************************************)
(* C14 - C15                                                               *)
(***************************************************************************)
\* the length option of step j is an integer >= 1
LengthValid(j) ==
    getInt(stack[j].opts, "length").err = "" /\ getInt(stack[j].opts, "length").v >= 1

\* C14: a unicode token with length N >= 1 (2 by default) that generates a
\* string emits exactly N code points, with and without the upper-case transform
C14_UnicodeLength ==
    \A p \in Passes : \A j \in 1..Len(stack) :
        Executed(p, j) /\ IsWord(j, "unicode") /\ IsFresh(j) /\ LengthValid(j)
        => Len(emits[p][j]) = getInt(stack[j].opts, "length").v

C14_Witness ==
    /\ template = Runes("{unicode:case:up}")
    /\ Executed("A", 2)
    /\ Len(emits["A"][2]) = 2
    /\ emits["A"][2][1] = Rune(886)

\* C15: a unicode token whose length is not an integer >= 1 makes Write return
\* an error; no string is emitted and none is cached
C15_BadLength ==
    [][\A p \in Passes : \A j \in 1..Len(stack) :
          StepsAt(p, j) /\ IsWord(j, "unicode") /\ ~LengthValid(j)
          => /\ pc'[p] = "returned"
             /\ err'[p] # ""
             /\ result'[p] = result[p]
             /\ emits'[p] = emits[p]
             /\ cache' = cache]_vars

C15_Witness ==
    /\ template = Runes("{unicode:length:0}")
    /\ pc["A"] = "returned"
    /\ err["A"] = ErrLength
    /\ result["A"] = <<>>
    /\ cache = newObjectCache

(***************************************************************************)
(* C16                                                                     *)
(***************************************************************************)
\* the text a token of word w with case option cCase shows for the stored value
Shown(w, cCase, str) ==
    IF w = "country" THEN (IF cCase = Runes("down") THEN ToLower(str) ELSE str)
    ELSE IF w = "unicode" THEN (IF cCase = Runes("up") THEN ToUpper(str) ELSE str)
    ELSE IF cCase = Runes("up") THEN ToUpper(str)
    ELSE IF cCase = Runes("down") THEN ToLower(str)
    ELSE str

\* the values a token of word w with the options of step j may store
StoredValues(j, w) ==
    IF w = "country" THEN {CountryCodes[n] : n \in 1..Len(CountryCodes)}
    ELSE IF w = "unicode" THEN generateRandomString(getInt(stack[j].opts, "length").v)
    ELSE IF w = "firstname"
    THEN {GetSpelling(FirstNames[n], Opt(stack[j].opts, "language")) : n \in 1..Len(FirstNames)}
    ELSE {GetSpelling(LastNames[n], Opt(stack[j].opts, "language")) : n \in 1..Len(LastNames)}

\* pass p completes step j, a token of word w, with the stored value at index k
ShowsStored(p, j, w, k) ==
    /\ k \in 1..Len(cache'[w])
    /\ emits'[p] = Append(emits[p], Shown(w, Opt(stack[j].opts, "case"), cache'[w][k]))

\* C16: for country, unicode, firstname and lastname the cache stores the
\* untransformed value (upper-case for country) and the case option of a token
\* affects the text of that token only: a token that generates appends the plain
\* value and shows it in its own case, a replay leaves the cache alone and shows
\* the stored value in the case of the replaying token
C16_CaseOnOutput ==
    [][\A p \in Passes : \A j \in 1..Len(stack) : \A w \in CaseWords :
          StepsAt(p, j) /\ IsWord(j, w) /\ pc'[p] = "loop"
          => IF IsReplay(j)
             THEN /\ cache' = cache
                  /\ ShowsStored(p, j, w, getInt(stack[j].opts, "ordinal").v + 1)
             ELSE /\ Len(cache'[w]) = Len(cache[w]) + 1
                  /\ SubSeq(cache'[w], 1, Len(cache[w])) = cache[w]
                  /\ cache'[w][Len(cache'[w])] \in StoredValues(j, w)
                  /\ w = "country" =>
                        cache'[w][Len(cache'[w])] = ToUpper(cache'[w][Len(cache'[w])])
                  /\ ShowsStored(p, j, w, Len(cache'[w]))]_vars

C16_Witness ==
    /\ template = Runes("{country:case:down}@{country:ordinal:0}")
    /\ pc["A"] = "returned"
    /\ result["A"] = Runes("ad@AD")
    /\ cache["country"] = <<Runes("AD")>>

(***************************************************************************)
(* C17 - C18                                                               *)
(***************************************************************************)
\* C17: a token whose command name the dispatcher does not recognise makes
\* Write fail: the call returns an error at that step
C17_UnknownWordFails ==
    [][\A p \in Passes : \A j \in 1..Len(stack) :
          StepsAt(p, j) /\ ~stack[j].lit /\ ~IsKnownWord(j)
          => pc'[p] = "returned" /\ err'[p] # ""]_vars

\* the option segment of the token opened at k: the text after the first ":"
OptionSegment(k) ==
    LET body == SubSeq(template, k + 1, CloseOf(k) - 1)
    IN  IF IndexOf(body, ":") = 0 THEN <<>>
        ELSE SubSeq(body, IndexOf(body, ":") + 1, Len(body))

\* a closed token of the template has, between two "|", a pair with no ":"
HasValuelessPair ==
    \E k \in TokenOpens :
        /\ \E c \in (k + 1)..Len(template) : template[c] = "}"
        /\ OptionSegment(k) # <<>>
        /\ \E i \in 1..Len(Split(OptionSegment(k), "|")) :
              IndexOf(Split(OptionSegment(k), "|")[i], ":") = 0

\* C18: on a token with a pair that has no value after its key BuildCallstack
\* does not crash (it returns an error and no Callstack)
C18_MalformedIsError ==
    HasValuelessPair => built # "panic"

(***************************************************************************)
(* C19 - C20                                                               *)
(***************************************************************************)
\* every token of the template is closed and its options are key:value pairs
SyntaxOK == WellFormed /\ ~HasValuelessPair

\* C19: BuildCallstack succeeds on every template whose tokens are well-formed,
\* whatever their command names and option values; an error comes from Write
\* only, at the token step it stops on, after the steps before it were run
C19_ErrorsAtWrite ==
    SyntaxOK =>
        /\ built \in {"new", "ok"}
        /\ \A p \in Passes :
              err[p] # ""
              => /\ pc[p] \in {"returned", "panicked"}
                 /\ idx[p] \in 1..Len(stack)
                 /\ ~stack[idx[p]].lit
                 /\ Len(emits[p]) = idx[p] - 1

C19_Witness ==
    /\ template = Runes("{int}@{int:ordinal:1}")
    /\ built = "ok"
    /\ pc["A"] = "returned"
    /\ err["A"] = ErrOrdinal
    /\ idx["A"] = 4

\* the numeric options the generator of word w reads
NumericOptions(w) ==
    IF w \in {"int", "float", "time"} THEN {"min", "max", "ordinal"}
    ELSE IF w = "unicode" THEN {"length", "ordinal"}
    ELSE {"ordinal"}

\* option o of step j, a token of word w, is the text of a number
IsNumber(j, w, o) ==
    IF w = "float" /\ o \in {"min", "max"}
    THEN ParseFloat(Opt(stack[j].opts, o)).err = ""
    ELSE Atoi(Opt(stack[j].opts, o)).err = ""

CaseUnknown(j) ==
    /\ Runes("case") \in DOMAIN stack[j].opts
    /\ stack[j].opts[Runes("case")] \notin {Runes("up"), Runes("down")}

\* C21: a country, unicode, firstname or lastname token whose case option is not
\* "up" or "down" makes Write return an error
C21_UnknownCaseFails ==
    [][\A p \in Passes : \A j \in 1..Len(stack) : \A w \in CaseWords :
          StepsAt(p, j) /\ IsWord(j, w) /\ CaseUnknown(j)
          => pc'[p] = "returned" /\ err'[p] # ""]_vars

\* the concatenation of the texts of a sequence
RECURSIVE Concat(_)
Concat(ts) == IF ts = <<>> THEN <<>> ELSE Head(ts) \o Concat(Tail(ts))

\* the Write call of pass p has returned an error
Failed(p) == pc[p] = "returned" /\ err[p] # ""

\* C22: when a step fails Write stops at once and returns that error: the call
\* stands at the failing step, the buffer holds the output of the steps before
\* it and nothing else, and after the return no step of the call runs (no value
\* is emitted, generated or cached) until the caller calls Write again
C22_StopsAtFailure ==
    /\ [](\A p \in Passes :
            Failed(p) => /\ idx[p] \in 1..Len(stack)
                         /\ Len(emits[p]) = idx[p] - 1
                         /\ result[p] = Concat(emits[p]))
    /\ [][\A p \in Passes :
            Failed(p) => \/ pc'[p] = "loop" /\ idx'[p] = 1 /\ calls'[p] = calls[p] + 1
                         \/ /\ pc'[p] = pc[p] /\ result'[p] = result[p]
                            /\ emits'[p] = emits[p] /\ gen'[p] = gen[p]
                            /\ \A q \in Passes : pc[q] # "loop" => cache' = cache]_vars

C22_Witness ==
    /\ template = Runes("{int}@{int:ordinal:1}")
    /\ Failed("A")
    /\ idx["A"] = 4
    /\ Len(result["A"]) > 1
    /\ Len(cache["int"]) = 1

\* C23: Write never changes the compiled steps or their options: after any
\* sequence of successful or failed Write calls the Callstack holds the steps
\* BuildCallstack made from the template, in the same order with the same options
C23_StackImmutable ==
    /\ [](built = "ok" => stack = BuildCallstackOf(template).stack)
    /\ [][built = "ok" => stack' = stack]_vars

C23_Witness ==
    /\ template = Runes("{int}@{int:ordinal:1}")
    /\ calls["A"] = 2
    /\ Failed("A")
    /\ stack = BuildCallstackOf(template).stack

(***************************************************************************)
(* C24 - C26: the tokens of the template, read from its runes.             *)
(***************************************************************************)
\* the text between the braces of the i-th token
TokenBody(i) == SubSeq(template, NthOpen(i) + 1, CloseOf(NthOpen(i)) - 1)

\* the command name of the i-th token: its text before the first ":"
TokenWord(i) ==
    IF IndexOf(TokenBody(i), ":") = 0 THEN TokenBody(i)
    ELSE SubSeq(TokenBody(i), 1, IndexOf(TokenBody(i), ":") - 1)

\* the "|"-separated pairs of the i-th token
TokenPairs(i) ==
    IF OptionSegment(NthOpen(i)) = <<>> THEN <<>>
    ELSE Split(OptionSegment(NthOpen(i)), "|")

PairKey(pr) == SubSeq(pr, 1, IndexOf(pr, ":") - 1)

PairValue(pr) == SubSeq(pr, IndexOf(pr, ":") + 1, Len(pr))

\* the keys of the pairs ps
KeysOf(ps) == {PairKey(ps[x]) : x \in 1..Len(ps)}

\* BuildCallstack has returned the Callstack, in which step 2i is the i-th token
\* of the template, and Write was not called yet (Write leaves the steps as they
\* are)
Compiled == built = "ok" /\ (\A p \in Passes : calls[p] = 0) /\ WellFormed

\* C24: the option mapping of a token is the defaults of its command overridden
\* by the supplied pairs: a supplied key has a supplied value, an unsupplied
\* default key keeps its default, and supplied keys the command does not know
\* are kept
C24_DefaultsOverridden ==
    Compiled =>
        \A i \in 1..Cardinality(TokenOpens) :
            LET m  == stack[2 * i].opts
                d  == defaultOptions(TokenWord(i))
                ps == TokenPairs(i)
            IN  /\ DOMAIN m = (DOMAIN d) \cup KeysOf(ps)
                /\ \A k \in DOMAIN m :
                      IF k \in KeysOf(ps)
                      THEN \E x \in 1..Len(ps) : PairKey(ps[x]) = k /\ m[k] = PairValue(ps[x])
                      ELSE m[k] = d[k]

C24_Witness ==
    /\ template = Runes("{int:max:5|flavor:mild}")
    /\ built = "ok"
    /\ stack[2].opts = MapOf({<<"min", "0">>, <<"max", "5">>, <<"ordinal", "-1">>,
                              <<"flavor", "mild">>})

\* the permutations of 1..n
Orderings(n) == {f \in [1..n -> 1..n] : \A a, b \in 1..n : f[a] = f[b] => a = b}

\* the pairs ps in the order f, joined by "|"
RECURSIVE Joined(_, _, _)
Joined(ps, f, k) ==
    IF k > Len(ps) THEN <<>>
    ELSE (IF k = 1 THEN <<>> ELSE <<"|">>) \o ps[f[k]] \o Joined(ps, f, k + 1)

\* C25: options are unordered: for a token whose keys are pairwise distinct
\* every permutation of its pairs resolves to the same option mapping
C25_OptionsUnordered ==
    Compiled =>
        \A i \in 1..Cardinality(TokenOpens) :
            LET ps == TokenPairs(i)
                w  == TokenWord(i)
            IN  Cardinality(KeysOf(ps)) = Len(ps)
                => \A f \in Orderings(Len(ps)) :
                      optionsToMap(w, Joined(ps, f, 1)) = [panic |-> "", m |-> stack[2 * i].opts]

C25_Witness ==
    /\ template = Runes("{int:max:2|min:1}")
    /\ built = "ok"
    /\ optionsToMap(Runes("int"), Runes("min:1|max:2")).m = stack[2].opts
    /\ stack[2].opts[Runes("min")] = Runes("1")

\* C26: only the first ":" counts at each level: the command name is the token
\* text before its first ":", and the value of a pair is all of its text after
\* its first ":", further ":" included
C26_FirstColon ==
    Compiled =>
        \A i \in 1..Cardinality(TokenOpens) :
            LET ps == TokenPairs(i)
            IN  /\ stack[2 * i].text = TokenWord(i)
                /\ \A x \in 1..Len(ps) :
                      (\A y \in 1..Len(ps) : PairKey(ps[y]) = PairKey(ps[x]) => y = x)
                      => /\ PairKey(ps[x]) \in DOMAIN stack[2 * i].opts
                         /\ stack[2 * i].opts[PairKey(ps[x])] = PairValue(ps[x])

C26_Witness ==
    /\ template = Runes("{time:format:2006-01-02 15:04:05}")
    /\ built = "ok"
    /\ stack[2].text = Runes("time")
    /\ stack[2].opts[Runes("format")] = Runes("2006-01-02 15:04:05")

(***************************************************************************)
(* C27                                                                     *)
(***************************************************************************)
\* the value of a hex digit
HexVal(c) == (CHOOSE k \in 1..16 : HexDigits[k] = c) - 1

\* the positions of the "-" in a guid text
DashAt == {9, 14, 19, 24}

\* the position of the first hex digit of byte k (1..16) in a guid text
BytePos(k) ==
    2 * k - 1 + (IF k > 10 THEN 4 ELSE IF k > 8 THEN 3 ELSE IF k > 6 THEN 2
                 ELSE IF k > 4 THEN 1 ELSE 0)

\* byte k of the guid text g
ByteOf(g, k) == 16 * HexVal(g[BytePos(k)]) + HexVal(g[BytePos(k) + 1])

\* g is the text of 16 bytes in groups of 8-4-4-4-12 hex digits
GuidShaped(g) ==
    /\ Len(g) = 36
    /\ \A k \in 1..36 :
          IF k \in DashAt THEN g[k] = "-" ELSE \E h \in 1..16 : HexDigits[h] = g[k]

\* g is the version 4, variant 2 form of the random bytes b: every bit of b but
\* the high nibble of byte 7 and the two top bits of byte 9
FromBytes(g, b) ==
    /\ \A k \in (1..16) \ {7, 9} : ByteOf(g, k) = b[k]
    /\ ByteOf(g, 7) \div 16 = 4
    /\ ByteOf(g, 7) % 16 = b[7] % 16
    /\ ByteOf(g, 9) \div 64 = 2
    /\ ByteOf(g, 9) % 64 = b[9] % 64

\* C27: the text of a generated guid has the hex groups 8-4-4-4-12, the high
\* nibble of its 7th byte is 4, the two top bits of its 9th byte are 1 and 0,
\* and all other bits are those of the 16 random bytes
C27_GuidVersionVariant ==
    \A p \in Passes : \A j \in 1..Len(stack) :
        Executed(p, j) /\ IsWord(j, "guid") /\ IsFresh(j)
        => /\ GuidShaped(emits[p][j])
           /\ \E b \in RandBytes : FromBytes(emits[p][j], b)

C27_Witness ==
    /\ template = Runes("{guid}")
    /\ Executed("A", 2)
    /\ emits["A"][2] = Runes("ffffffff-ffff-4fff-bfff-ffffffffffff")

(***************************************************************************)
(* C30                                                                     *)
(***************************************************************************)
\* the steps of the current Write call of pass p that completed and generated a
\* value of command c
FreshDone(p, c) == {j \in 1..Len(emits[p]) : IsWord(j, c) /\ IsFresh(j)}

\* C30: in every state of a Write pass the cache of each command the dispatcher
\* knows holds as many values as non-ordinal invocations of the command have
\* completed in the pass: a replay adds none (the cache entry of a name that has
\* no generator stays empty)
C30_CacheCountsFresh ==
    \A p \in Passes :
        pc[p] \in {"loop", "returned", "panicked"}
        => /\ \A c \in WordNames : Len(cache[c]) = Cardinality(FreshDone(p, c))
           /\ \A c \in Commands \ WordNames : cache[c] = <<>>

C30_Witness ==
    /\ template = Runes("{guid}{guid}@{guid:ordinal:1}")
    /\ pc["A"] = "returned"
    /\ err["A"] = ""
    /\ Len(cache["guid"]) = 2

(***************************************************************************)
(* C28 - C29                                                               *)
(***************************************************************************)
\* the command has ended after it read its flags successfully
Ended == cli.pc \in {"exited", "crashed"} /\ cli.t # <<>>

\* C28: the command runs all n iterations even when some fail: a failed
\* iteration is logged and writes no line, the others still run, and the exit
\* code is non-zero exactly when an iteration failed
C28_AllIterationsRun ==
    Ended => /\ cli.i = cli.iterations
             /\ Len(cli.out) + cli.logged = cli.iterations
             /\ cli.code # 0 <=> cli.logged > 0

\* C29: the command takes a count n <= 0 as 1 and else performs exactly n
\* iterations, one newline-terminated line for each that succeeds; without a
\* template it fails at startup, before any iteration
C29_IterationCount ==
    /\ cli.pc \in {"exited", "crashed"} /\ cli.t = <<>>
          => cli.i = 0 /\ cli.out = <<>> /\ cli.code # 0
    /\ Ended => /\ cli.i = (IF cli.n <= 0 THEN 1 ELSE cli.n)
                /\ Len(cli.out) = cli.i - cli.logged
                /\ \A k \in 1..Len(cli.out) : cli.out[k][Len(cli.out[k])] = "\n"

(***************************************************************************)
(* C31                                                                     *)
(***************************************************************************)
\* sequence a is the beginning of sequence b
IsPrefix(a, b) == Len(a) <= Len(b) /\ SubSeq(b, 1, Len(a)) = a

\* the step that pass p takes from position j fails, by an error or by a panic
StepFails(p) == pc'[p] \in {"returned", "panicked"}

\* C31: within a pass the cache is append-only and per-command: a step keeps
\* every sequence as the beginning of what it becomes and adds at most one
\* value, only to the sequence of its own command; a literal step, an ordinal
\* replay and a failing invocation leave every sequence unchanged
C31_CacheAppendOnly ==
    [][\A p \in Passes, j \in 1..Len(stack) :
          StepsAt(p, j)
          => /\ \A c \in Commands :
                   /\ IsPrefix(cache[c], cache'[c])
                   /\ Len(cache'[c]) <= Len(cache[c]) + 1
                   /\ cache'[c] # cache[c] => IsWord(j, c)
             /\ (stack[j].lit \/ IsReplay(j) \/ StepFails(p)) => cache' = cache]_vars

C31_Witness ==
    /\ template = Runes("{country}{guid}-{country:ordinal:0}{guid}{guid:ordinal:3}")
    /\ pc["A"] = "returned"
    /\ err["A"] # ""
    /\ Len(cache["country"]) = 1
    /\ Len(cache["guid"]) = 2
    /\ cache["guid"][1] # cache["guid"][2]

(***************************************************************************)
(* C32                                                                     *)
(***************************************************************************)
\* step j replays a position that its command has already produced
ReplaysProduced(j) ==
    /\ IsKnownWord(j)
    /\ IsReplay(j)
    /\ getInt(stack[j].opts, "ordinal").v < Len(cache[WordOf(j)])

\* C32: a token whose ordinal refers to an already-produced position returns the
\* cached value whatever its other options are: the step does not fail
C32_ReplayIgnoresOptions ==
    [][\A p \in Passes, j \in 1..Len(stack) :
          StepsAt(p, j) /\ ReplaysProduced(j)
          => pc'[p] = "loop" /\ err'[p] = "" /\ Len(emits'[p]) = j]_vars

(***************************************************************************)
(* C33                                                                     *)
(***************************************************************************)
\* position k lies inside a token: a token opened before k and no "}" came since
InsideToken(k) ==
    \E o \in TokenOpens : o < k /\ \A c \in o..(k - 1) : template[c] # "}"

\* the invocation step that the text between the braces of the i-th token makes
StepOfToken(i) ==
    WordStep(TokenWord(i), optionsToMap(TokenWord(i), OptionSegment(NthOpen(i))).m)

\* C33: braces do not nest: the steps of the Callstack are the literal runs and
\* the tokens in turn, each token running from its opening "{" to the first "}"
\* after it, so that a "{" inside a token is part of the token's text (no step
\* is made for it) and a "}" outside a token is part of a literal run
C33_BracesDoNotNest ==
    Compiled =>
        LET n == Cardinality(TokenOpens)
        IN  /\ Len(stack) = 2 * n + 1
            /\ \A i \in 1..n : stack[2 * i] = StepOfToken(i)
            /\ \A i \in 0..n : stack[2 * i + 1] = LiteralStep(LiteralRun(i))
            /\ \A k \in 1..Len(template) :
                  /\ template[k] = "{" /\ InsideToken(k)
                        => \E i \in 1..n : NthOpen(i) < k /\ k < CloseOf(NthOpen(i))
                  /\ template[k] = "}" /\ ~InsideToken(k)
                        => \A i \in 1..n : k < NthOpen(i) \/ k > CloseOf(NthOpen(i))

C33_Witness ==
    /\ template = Runes("a{b{c}d}e")
    /\ built = "ok"
    /\ stack = <<LiteralStep(Runes("a")), WordStep(Runes("b{c"), defaultOptions(Runes("b{c"))),
                 LiteralStep(Runes("d}e"))>>

(***************************************************************************)
(* C34                                                                     *)
(***************************************************************************)
\* C34: compiling leaves the per-command defaults as they were and shares no
\* mapping: after any number of compiled tokens every default mapping is the
\* original one, each token's closure holds a mapping of its own (not a default
\* one, not that of another token), and the mapping of an option-less token is
\* the original defaults of its command
C34_DefaultsUntouched ==
    heap.pc # "none" =>
        /\ \A i \in 1..Len(DefaultNames) :
              heap.maps[i] = defaultOptions(Runes(DefaultNames[i]))
        /\ \A a \in 1..Len(heap.steps) :
              /\ heap.steps[a].ref > Len(DefaultNames)
              /\ \A b \in 1..Len(heap.steps) :
                    heap.steps[a].ref = heap.steps[b].ref => a = b
              /\ heap.steps[a].options = <<>>
                    => heap.maps[heap.steps[a].ref] = defaultOptions(heap.steps[a].word)

C34_Witness ==
    /\ heap.pc = "ready"
    /\ Len(heap.steps) = 2
    /\ heap.steps[1].word = Runes("int") /\ heap.steps[1].options = Runes("min:5|max:6")
    /\ heap.maps[heap.steps[1].ref][Runes("min")] = Runes("5")
    /\ heap.steps[2].word = Runes("int") /\ heap.steps[2].options = <<>>
    /\ heap.maps[heap.steps[2].ref] = defaultOptions(Runes("int"))

(***************************************************************************)
(* C35                                                                     *)
(***************************************************************************)
\* the code points next to a bound of a range of the table, on either side of
\* it: the draws that the model samples fall there
NearBounds ==
    UNION {((PrintableRanges[o][1] - 1)..(PrintableRanges[o][1] + MaxDraw))
           \cup ((PrintableRanges[o][2] - MaxDraw)..(PrintableRanges[o][2] + 1)) :
            o \in 1..Len(PrintableRanges)}

\* code point cp lies inside a range of the table, bounds included
InRanges(cp) ==
    \E o \in 1..Len(PrintableRanges) :
        PrintableRanges[o][1] <= cp /\ cp <= PrintableRanges[o][2]

\* the runes of the code points next to a bound that lie inside a range
RangeRunes == {Rune(cp) : cp \in {c \in NearBounds : InRanges(c)}}

\* C35: every code point generated for a unicode token, as stored before any
\* case transform, lies inside one of the ranges of the table; the ranges are
\* pairwise disjoint; every range has an upper bound greater than its lower
\* bound, and the step of a unicode token never panics
C35_UnicodeInRanges ==
    /\ \A a, b \in 1..Len(PrintableRanges) :
          a # b => \/ PrintableRanges[a][2] < PrintableRanges[b][1]
                   \/ PrintableRanges[b][2] < PrintableRanges[a][1]
    /\ \A a \in 1..Len(PrintableRanges) : PrintableRanges[a][2] > PrintableRanges[a][1]
    /\ cache # NilCache
          => \A k \in 1..Len(cache["unicode"]) :
                \A x \in 1..Len(cache["unicode"][k]) : cache["unicode"][k][x] \in RangeRunes
    /\ \A p \in Passes : pc[p] = "panicked" => ~IsWord(idx[p], "unicode")

C35_Witness ==
    /\ template = Runes("{unicode}")
    /\ pc["A"] = "returned"
    /\ cache["unicode"] = << <<Rune(1024), Rune(67870)>> >>

(***************************************************************************)
(* C36                                                                     *)
(***************************************************************************)
\* C36: the command parses its template once, before the first render: however
\* many iterations have run, the template was scanned at most once
C36_CompiledOnce == cli.pc # "none" => cli.parses <= 1

(***************************************************************************)
(* C37                                                                     *)
(***************************************************************************)
\* C37: every Write call terminates: it is at a closure of the stack or past
\* the last one, and each step of its loop either goes on to the next closure
\* or returns the error of the closure it ran (so that it runs the closures in
\* compiled order, each at most once, and returns after the last one or at the
\* first that fails); and BuildCallstack ends by returning the Callstack
C37_WriteTerminates ==
    /\ [](\A p \in Passes : pc[p] = "loop" => idx[p] \in 1..(Len(stack) + 1))
    /\ [][/\ \A p \in Passes, j \in 1..Len(stack) :
                StepsAt(p, j)
                => \/ pc'[p] = "loop" /\ idx'[p] = j + 1
                   \/ pc'[p] = "returned" /\ err'[p] # "" /\ idx'[p] = j
          /\ built = "new" /\ built' # "new" => built' = "ok"]_vars

(***************************************************************************)
(* C38                                                                     *)
(***************************************************************************)
\* the position of the "{" that opens the token the template ends in
UnclosedAt ==
    CHOOSE k \in TokenOpens : \A c \in (k + 1)..Len(template) : template[c] # "}"

\* C38: when the template ends inside a token, BuildCallstack returns the
\* Callstack (it crashes only on a closed token with a valueless pair), the
\* Callstack has an invocation step for each closed token only and ends with the
\* literal step of the text after the "{", and a Write call that renders the
\* closed tokens emits the literal run before the "{" and then that text: the
\* "{" is not emitted
C38_UnclosedIsLiteral ==
    built # "new" /\ ~WellFormed =>
        LET n    == Cardinality(TokenOpens)
            rest == SubSeq(template, UnclosedAt + 1, Len(template))
        IN  /\ built = "panic" => HasValuelessPair
            /\ built = "ok" =>
                  /\ Len(stack) = 2 * n
                  /\ Cardinality({j \in 1..Len(stack) : ~stack[j].lit}) = n - 1
                  /\ stack[2 * n] = LiteralStep(rest)
                  /\ \A p \in Passes :
                        pc[p] = "returned" /\ err[p] = ""
                        => /\ Len(emits[p]) = 2 * n
                           /\ emits[p][2 * n - 1] = LiteralRun(n - 1)
                           /\ emits[p][2 * n] = rest
                           /\ result[p] = Concat(emits[p])

C38_Witness ==
    /\ template = Runes("{guid}-{int:min:1")
    /\ pc["A"] = "returned"
    /\ err["A"] = ""
    /\ Len(stack) = 4
    /\ emits["A"][3] = Runes("-")
    /\ emits["A"][4] = Runes("int:min:1")

(***************************************************************************)
(* C39                                                                     *)
(***************************************************************************)
\* the options of step j with the ordinal a token without ordinal has
DefaultOrdinal(j) == MapSet(stack[j].opts, Runes("ordinal"), Runes("-1"))

\* pass p is about to run step j, which invokes a known generator with a
\* negative ordinal
AtFreshStep(p, j) ==
    pc[p] = "loop" /\ idx[p] = j /\ j <= Len(stack) /\ IsKnownWord(j) /\ IsFresh(j)

\* C39: for every command a token with any negative ordinal behaves exactly as
\* the same token without ordinal: the generator has the same outcomes on the
\* same cache, and a step that succeeds has generated a value and appended it
\* to the cache sequence of the command
C39_NegativeOrdinalFresh ==
    /\ [](\A p \in Passes, j \in 1..Len(stack) :
             AtFreshStep(p, j)
             => resolveWord(cache, stack[j].text, stack[j].opts)
                   = resolveWord(cache, stack[j].text, DefaultOrdinal(j)))
    /\ [][\A p \in Passes, j \in 1..Len(stack) :
             AtFreshStep(p, j) /\ StepsAt(p, j) /\ pc'[p] = "loop"
             => /\ Len(cache'[WordOf(j)]) = Len(cache[WordOf(j)]) + 1
                /\ SubSeq(cache'[WordOf(j)], 1, Len(cache[WordOf(j)])) = cache[WordOf(j)]
                /\ Len(emits'[p]) = j]_vars

C39_Witness ==
    /\ template = Runes("{country:ordinal:-2}@{country:ordinal:0}")
    /\ pc["A"] = "returned"
    /\ err["A"] = ""
    /\ Len(cache["country"]) = 1
    /\ emits["A"][4] = emits["A"][2]

====
